---- MODULE Spec2Model ----
(***************************************************************************)
(* Chain synchronisation core of the StarkNet node: the sync driver of     *)
(* crates/pathfinder/src/state/sync.rs with its store transactions, the    *)
(* composite L1-L2 head, the producer channels and the producer restart.   *)
(*                                                                         *)
(* Hashes are modelled by their preimages (a collision-free hash): a       *)
(* contract root is the set of non-zero storage leaves, a contract state   *)
(* hash is the pair <<class hash, contract root>>, and a global root is    *)
(* the set of <<address, state hash>> leaves of the global tree. ZERO is   *)
(* the root of the empty tree.                                             *)
(***************************************************************************)
EXTENDS Integers, Sequences, FiniteSets, TLC

\* ------------------------------------------------------------------ bounds

\* Block numbers of the model are 0..MaxBlock.
MaxBlock == 2
\* A run of the driver receives at most MaxEvents events.
MaxEvents == 4
\* The producers send at most MaxSent events between them.
MaxSent == 3
\* The producers are restarted at most MaxRestarts times.
MaxRestarts == 2

\* --------------------------------------------------------------- constants

GENESIS == 0

Heights == GENESIS..MaxBlock

\* Option<T>
Nil == <<>>
Some(x) == <<x>>

ZERO == {}

calculate_contract_state_hash(hash, root) == <<hash, root>>

\* The contract and the storage cell of the model's state diffs.
Addr1 == "a1"
Class1 == "c1"
Key1 == "k1"

\* A root other than ZERO: the global root once contract a1 is deployed.
A == {<<Addr1, calculate_contract_state_hash(Class1, ZERO)>>}

GlobalRoots == {ZERO, A}

\* A block's hash is the hash of its contents.
BlockHashOf(number, root) == <<number, root>>

\* ------------------------------------------------------------ the store

EmptyDb ==
  [ l1_state              |-> {},
    starknet_blocks       |-> {},
    starknet_transactions |-> {},
    contract_code         |-> {},
    contracts_state       |-> {},
    contracts             |-> {},
    tree_nodes            |-> {},
    l1_l2_head            |-> Nil ]

MaxOf(S) == CHOOSE x \in S : \A y \in S : y <= x

\* L1StateTable
L1StateTable_get(t, n) ==
  IF \E r \in t : r.block_number = n
    THEN Some(CHOOSE r \in t : r.block_number = n)
    ELSE Nil

L1StateTable_latest(t) ==
  IF t = {} THEN Nil
  ELSE L1StateTable_get(t, MaxOf({r.block_number : r \in t}))

L1StateTable_get_root(t, n) ==
  IF L1StateTable_get(t, n) = Nil THEN Nil
  ELSE Some(L1StateTable_get(t, n)[1].global_root)

L1StateTable_reorg(t, reorg_tail) == {r \in t : r.block_number < reorg_tail}

\* StarknetBlocksTable
StarknetBlocksTable_get(t, n) ==
  IF \E r \in t : r.number = n
    THEN Some(CHOOSE r \in t : r.number = n)
    ELSE Nil

StarknetBlocksTable_latest(t) ==
  IF t = {} THEN Nil
  ELSE StarknetBlocksTable_get(t, MaxOf({r.number : r \in t}))

StarknetBlocksTable_reorg(t, reorg_tail) == {r \in t : r.number < reorg_tail}

\* Fails when a row with the same block number exists (the table is keyed by
\* block number; insert does not replace).
L1StateTable_insert(t, update) ==
  IF \E r \in t : r.block_number = update.block_number
    THEN [ok |-> FALSE, t |-> t]
    ELSE [ok |-> TRUE, t |-> t \cup {update}]

StarknetBlocksTable_insert(t, block) ==
  IF \E r \in t : r.number = block.number
    THEN [ok |-> FALSE, t |-> t]
    ELSE [ok |-> TRUE, t |-> t \cup {block}]

\* One row per transaction of the block, keyed by block and index; a row that
\* exists is replaced by itself.
StarknetTransactionsTable_upsert(t, hash, number, count) ==
  t \cup {<<number, hash, i>> : i \in 1..count}

\* ContractsStateTable: state hash -> (class hash, contract root).
ContractsStateTable_upsert(t, state_hash) == t \cup {state_hash}

\* ContractsTable: address -> class hash.
ContractsTable_upsert(t, address, hash) ==
  {r \in t : r[1] # address} \cup {<<address, hash>>}

ContractsTable_get_hash(t, address) ==
  IF \E r \in t : r[1] = address
    THEN Some((CHOOSE r \in t : r[1] = address)[2])
    ELSE Nil

\* ContractCodeTable: insertion of a definition that is there changes nothing.
ContractCodeTable_insert_compressed(t, hash) == t \cup {hash}

ContractCodeTable_exists(t, hashes) ==
  [i \in 1..Len(hashes) |-> hashes[i] \in t]

\* ------------------------------------------------------- Merkle trees

\* A tree is the set of its <<key, value>> leaves.
TreeHas(tree, key) == \E l \in tree : l[1] = key

TreeGet(tree, key) == (CHOOSE l \in tree : l[1] = key)[2]

\* GlobalStateTree::set
GlobalStateTree_set(tree, address, value) ==
  {l \in tree : l[1] # address} \cup {<<address, value>>}

\* A storage leaf set to 0 is removed from the contract's tree.
StorageTree_set(tree, key, value) ==
  {l \in tree : l[1] # key} \cup (IF value = 0 THEN {} ELSE {<<key, value>>})

RECURSIVE ApplyStorageUpdates(_, _, _)
ApplyStorageUpdates(tree, storage_updates, i) ==
  IF i > Len(storage_updates) THEN tree
  ELSE ApplyStorageUpdates(
         StorageTree_set(tree, storage_updates[i].address, storage_updates[i].value),
         storage_updates, i + 1)

\* state::update_contract_state: the contract's storage tree is loaded at the
\* root recorded for its current state hash (ZERO when the contract has no
\* state hash in the global tree), the writes are applied, and the new state
\* hash is recorded. Fails when the contract's class hash is not in
\* ContractsTable.
update_contract_state(st, update) ==
  LET old_root == IF TreeHas(st.tree, update.address)
                    THEN TreeGet(st.tree, update.address)[2]
                    ELSE ZERO
      new_root == ApplyStorageUpdates(old_root, update.storage_updates, 1)
      class == ContractsTable_get_hash(st.db.contracts, update.address)
  IN IF class = Nil
       THEN [ok |-> FALSE, hash |-> Nil, db |-> st.db]
       ELSE [ok |-> TRUE,
             hash |-> calculate_contract_state_hash(class[1], new_root),
             db |-> [st.db EXCEPT !.contracts_state =
                       ContractsStateTable_upsert(@,
                         calculate_contract_state_hash(class[1], new_root))]]

\* st is the state of update_starknet_state inside its transaction: the
\* tables written so far and the global tree in memory.
deploy_contract(st, contract) ==
  LET contract_root == ZERO
      state_hash == calculate_contract_state_hash(contract.hash, contract_root)
  IN [ok |-> TRUE,
      tree |-> GlobalStateTree_set(st.tree, contract.address, state_hash),
      db |-> [st.db EXCEPT
                !.contracts_state = ContractsStateTable_upsert(@, state_hash),
                !.contracts = ContractsTable_upsert(@, contract.address, contract.hash)]]

RECURSIVE DeployLoop(_, _, _)
DeployLoop(st, deployed_contracts, i) ==
  IF i > Len(deployed_contracts) THEN st
  ELSE DeployLoop(deploy_contract(st, deployed_contracts[i]), deployed_contracts, i + 1)

RECURSIVE UpdateLoop(_, _, _)
UpdateLoop(st, contract_updates, i) ==
  IF i > Len(contract_updates) THEN st
  ELSE LET r == update_contract_state(st, contract_updates[i])
       IN IF ~r.ok THEN [st EXCEPT !.ok = FALSE]
          ELSE UpdateLoop(
                 [ok |-> TRUE,
                  tree |-> GlobalStateTree_set(st.tree, contract_updates[i].address, r.hash),
                  db |-> r.db],
                 contract_updates, i + 1)

\* Returns [ok, root, db]: the new global root and the tables as written.
update_starknet_state(db, diff) ==
  LET latest == StarknetBlocksTable_latest(db.starknet_blocks)
      global_root == IF latest = Nil THEN ZERO ELSE latest[1].root
      \* GlobalStateTree::load: the tree whose root is global_root
      global_tree == global_root
      deployed == DeployLoop([ok |-> TRUE, tree |-> global_tree, db |-> db],
                             diff.deployed_contracts, 1)
      updated == UpdateLoop(deployed, diff.contract_updates, 1)
  IN IF ~updated.ok
       THEN [ok |-> FALSE, root |-> ZERO, db |-> updated.db]
       \* GlobalStateTree::apply: the nodes are written, the root returned
       ELSE [ok |-> TRUE, root |-> updated.tree,
             db |-> [updated.db EXCEPT !.tree_nodes = @ \cup {updated.tree}]]

\* ------------------------------------------------ the driver's transactions

\* Mutant: the writes made before the error stay in the store.
Abort_KeepsWrites(db, written, why) == [ok |-> FALSE, db |-> written, err |-> why]

\* A transaction that returns early with an error is dropped, which rolls it
\* back: the store stays as it was before the event.
Abort(db, written, why) == [ok |-> FALSE, db |-> db, err |-> why]

Commit(written) == [ok |-> TRUE, db |-> written, err |-> "none"]

RECURSIVE InsertLoop(_, _, _)
InsertLoop(r, updates, i) ==
  IF i > Len(updates) \/ ~r.ok THEN r
  ELSE InsertLoop(L1StateTable_insert(r.t, updates[i]), updates, i + 1)

\* Mutant: the loop goes on after a log without an agreeing L2 block.
RECURSIVE NextHeadLoop_SkipsMismatch(_, _, _, _)
NextHeadLoop_SkipsMismatch(blocks, updates, i, next_head) ==
  IF i > Len(updates) THEN next_head
  ELSE LET l2 == StarknetBlocksTable_get(blocks, updates[i].block_number)
       IN IF l2 # Nil /\ l2[1].root = updates[i].global_root
            THEN NextHeadLoop_SkipsMismatch(blocks, updates, i + 1,
                                            Some(updates[i].block_number))
            ELSE NextHeadLoop_SkipsMismatch(blocks, updates, i + 1, next_head)

\* Mutant: the loop stops after the first log.
NextHeadLoop_FirstOnly(blocks, updates, i, next_head) ==
  LET l2 == StarknetBlocksTable_get(blocks, updates[1].block_number)
  IN IF l2 # Nil /\ l2[1].root = updates[1].global_root
       THEN Some(updates[1].block_number)
       ELSE next_head

\* The loop of l1_update over the inserted logs: the block number of the last
\* log before the first one that has no L2 block with an equal root.
RECURSIVE NextHeadLoop(_, _, _, _)
NextHeadLoop(blocks, updates, i, next_head) ==
  IF i > Len(updates) THEN next_head
  ELSE LET l2 == StarknetBlocksTable_get(blocks, updates[i].block_number)
       IN IF l2 # Nil /\ l2[1].root = updates[i].global_root
            THEN NextHeadLoop(blocks, updates, i + 1, Some(updates[i].block_number))
            ELSE next_head

\* Mutant: an absent head is taken for block 0 already agreed.
ExpectedNext_FromOne(l1_l2_head) ==
  IF l1_l2_head = Nil THEN GENESIS + 1 ELSE l1_l2_head[1] + 1

ExpectedNext(l1_l2_head) ==
  IF l1_l2_head = Nil THEN GENESIS ELSE l1_l2_head[1] + 1

\* Mutant: the first log is expected one block late.
L1UpdateHead_OffByOne(tx, updates) ==
  LET expected_next == ExpectedNext(tx.l1_l2_head) + 1
      next_head ==
        IF Len(updates) > 0 /\ updates[1].block_number = expected_next
          THEN NextHeadLoop(tx.starknet_blocks, updates, 1, Nil)
          ELSE Nil
  IN IF next_head # Nil THEN next_head ELSE tx.l1_l2_head

\* Mutant: the L2 block's root is not compared with the log's.
RECURSIVE NextHeadLoop_AnyRoot(_, _, _, _)
NextHeadLoop_AnyRoot(blocks, updates, i, next_head) ==
  IF i > Len(updates) THEN next_head
  ELSE IF StarknetBlocksTable_get(blocks, updates[i].block_number) # Nil
    THEN NextHeadLoop_AnyRoot(blocks, updates, i + 1, Some(updates[i].block_number))
    ELSE next_head

L1UpdateHead_AnyRoot(tx, updates) ==
  LET expected_next == ExpectedNext(tx.l1_l2_head)
      next_head ==
        IF Len(updates) > 0 /\ updates[1].block_number = expected_next
          THEN NextHeadLoop_AnyRoot(tx.starknet_blocks, updates, 1, Nil)
          ELSE Nil
  IN IF next_head # Nil THEN next_head ELSE tx.l1_l2_head

\* "Track combined L1 and L2 state" of l1_update: the head to store.
L1UpdateHead(tx, updates) ==
  LET expected_next == ExpectedNext(tx.l1_l2_head)
      next_head ==
        IF Len(updates) > 0 /\ updates[1].block_number = expected_next
          THEN NextHeadLoop(tx.starknet_blocks, updates, 1, Nil)
          ELSE Nil
  IN IF next_head # Nil THEN next_head ELSE tx.l1_l2_head

l1_update(db, updates) ==
  LET inserted == InsertLoop([ok |-> TRUE, t |-> db.l1_state], updates, 1)
      tx == [db EXCEPT !.l1_state = inserted.t]
  IN IF ~inserted.ok THEN Abort(db, tx, "Insert update")
     ELSE Commit([tx EXCEPT !.l1_l2_head = L1UpdateHead(tx, updates)])

\* Mutant: the head is set below the reorg tail whatever it was.
ReorgHead_Always(l1_l2_head, reorg_tail) ==
  IF reorg_tail = GENESIS THEN Nil ELSE Some(reorg_tail - 1)

\* Mutant: a head equal to the reorg tail is kept.
ReorgHead_Above(l1_l2_head, reorg_tail) ==
  IF l1_l2_head # Nil /\ l1_l2_head[1] > reorg_tail
    THEN IF reorg_tail = GENESIS THEN Nil ELSE Some(reorg_tail - 1)
    ELSE l1_l2_head

\* "Track combined L1 and L2 state" of l1_reorg and of l2_reorg.
ReorgHead(l1_l2_head, reorg_tail) ==
  IF l1_l2_head # Nil /\ l1_l2_head[1] >= reorg_tail
    THEN IF reorg_tail = GENESIS THEN Nil ELSE Some(reorg_tail - 1)
    ELSE l1_l2_head

\* Mutant: the log at the reorg tail is kept.
l1_reorg_KeepsTail(db, reorg_tail) ==
  Commit([db EXCEPT
    !.l1_state = L1StateTable_reorg(@, reorg_tail + 1),
    !.l1_l2_head = ReorgHead(@, reorg_tail)])

l1_reorg(db, reorg_tail) ==
  Commit([db EXCEPT
    !.l1_state = L1StateTable_reorg(@, reorg_tail),
    !.l1_l2_head = ReorgHead(@, reorg_tail)])

\* Mutant: the block's number is not compared with expected_next.
L2UpdateHead_Unexpected(tx, starknet_block) ==
  LET l1_root == L1StateTable_get_root(tx.l1_state, starknet_block.number)
  IN IF l1_root = Some(starknet_block.root)
       THEN Some(starknet_block.number)
       ELSE tx.l1_l2_head

\* Mutant: the L1 log's root is not compared with the block's.
L2UpdateHead_AnyRoot(tx, starknet_block) ==
  LET expected_next == ExpectedNext(tx.l1_l2_head)
      l1_root == L1StateTable_get_root(tx.l1_state, starknet_block.number)
  IN IF expected_next = starknet_block.number /\ l1_root # Nil
       THEN Some(starknet_block.number)
       ELSE tx.l1_l2_head

\* "Track combined L1 and L2 state" of l2_update: the head to store.
L2UpdateHead(tx, starknet_block) ==
  LET expected_next == ExpectedNext(tx.l1_l2_head)
      l1_root == L1StateTable_get_root(tx.l1_state, starknet_block.number)
  IN IF expected_next = starknet_block.number /\ l1_root = Some(starknet_block.root)
       THEN Some(starknet_block.number)
       ELSE tx.l1_l2_head

\* block.transactions and block.transaction_receipts stand for the lengths of
\* the two lists.
l2_update(db, block, diff) ==
  LET updated == update_starknet_state(db, diff)
      starknet_block == [number |-> block.block_number,
                         hash |-> block.block_hash,
                         root |-> block.state_root]
      inserted == StarknetBlocksTable_insert(updated.db.starknet_blocks, starknet_block)
      tx1 == [updated.db EXCEPT !.starknet_blocks = inserted.t]
      tx2 == [tx1 EXCEPT !.starknet_transactions =
                StarknetTransactionsTable_upsert(@, starknet_block.hash,
                                                 starknet_block.number, block.transactions)]
  IN IF ~updated.ok THEN Abort(db, updated.db, "Updating Starknet state")
     ELSE IF updated.root # block.state_root
       THEN Abort(db, updated.db, "State root mismatch")
     ELSE IF ~inserted.ok THEN Abort(db, updated.db, "Insert block into database")
     ELSE IF block.transactions # block.transaction_receipts
       THEN Abort(db, tx1, "Transactions and receipts mismatch")
     ELSE Commit([tx2 EXCEPT !.l1_l2_head = L2UpdateHead(tx2, starknet_block)])

\* The transactions of a deleted block row go with it.
l2_reorg(db, reorg_tail) ==
  Commit([db EXCEPT
    !.starknet_blocks = StarknetBlocksTable_reorg(@, reorg_tail),
    !.starknet_transactions = {r \in @ : r[1] < reorg_tail},
    !.l1_l2_head = ReorgHead(@, reorg_tail)])

\* ------------------------------------------------------------ the events

StateUpdateLogs == [block_number : Heights, global_root : GlobalRoots]

\* L1 Update: a non-empty batch of logs with strictly increasing block numbers.
\* The batches of the model are the two shapes sync tells apart: [single] and
\* [first, .., last] (here of two logs, adjacent or not).
L1Batches ==
  {<<u>> : u \in StateUpdateLogs}
    \cup {p \in StateUpdateLogs \X StateUpdateLogs :
              p[1].block_number < p[2].block_number}

EmptyDiff == [deployed_contracts |-> <<>>, contract_updates |-> <<>>]
DeployDiff ==
  [deployed_contracts |-> <<[address |-> Addr1, hash |-> Class1]>>,
   contract_updates |-> <<>>]
UpdateDiff ==
  [deployed_contracts |-> <<>>,
   contract_updates |->
     <<[address |-> Addr1, storage_updates |-> <<[address |-> Key1, value |-> 1]>>]>>]

StateDiffs == {EmptyDiff, DeployDiff, UpdateDiff}

\* transactions and transaction_receipts are the lengths of the two lists.
Blocks ==
  {[block_number |-> n, block_hash |-> BlockHashOf(n, r), state_root |-> r,
    transactions |-> c[1], transaction_receipts |-> c[2]] :
     n \in Heights, r \in GlobalRoots, c \in {<<1, 1>>, <<1, 0>>}}

L1Events ==
  {[kind |-> "L1Update", updates |-> u] : u \in L1Batches}
    \cup {[kind |-> "L1Reorg", reorg_tail |-> t] : t \in Heights}

L2Events ==
  {[kind |-> "L2Update", block |-> b, diff |-> d] : b \in Blocks, d \in StateDiffs}
    \cup {[kind |-> "L2Reorg", reorg_tail |-> t] : t \in Heights}

\* ------------------------------------------------------------- the state

VARIABLES
  db,       \* the committed store
  driver,   \* where sync is: "select" (waiting in the event loop), "handling"
            \* (an event was received), "handled" (its transaction is
            \* committed), "failed" (sync returned Err)
  cur,      \* the event received and not yet processed
  last,     \* the event processed last, the store before it and its outcome
  received, \* number of events received so far
  rx_l1,    \* the events in the L1 channel
  rx_l2,    \* the events in the L2 channel
  l1_task,  \* the L1 producer task: "running", or how it ended: "ok" (returned
            \* Ok), "err" (returned Err), "panicked"
  l2_task,  \* the L2 producer task, likewise
  l1_head,  \* the head the running L1 producer was spawned with
  l2_head,  \* the head the running L2 producer was spawned with
  restarts, \* number of producer restarts so far
  l1_sent,  \* number of events the L1 producer tasks have sent so far
  l2_sent,  \* number of events the L2 producer tasks have sent so far
  l1_recvd, \* number of events sync has received from the L1 channels
  l2_recvd, \* number of events sync has received from the L2 channels
  status,   \* the SyncStatus cell of the shared state
  starting_block  \* the block hash the status task was spawned with

\* the state of the peer-agnostic client and of its streams
VARIABLES
  peers_with_capability, \* Client.peers_with_capability: the peer set stored
                         \* for each capability and the time since last_update
  hs,       \* the stream header_stream returned, "idle" before the call
  ts,       \* the stream transaction_stream returned, "idle" before the call
  debug_assertions, \* whether the build checks debug_assert!
  calls,    \* the calls of get_update_peers_with_sync_capability, one record
            \* for each task that polls a stream of the client
  lock,     \* the RwLock of Client.peers_with_capability
  stored    \* for each capability, the time since its set was stored

sync_vars == <<db, driver, cur, last, received,
               rx_l1, rx_l2, l1_task, l2_task, l1_head, l2_head, restarts,
               l1_sent, l2_sent, l1_recvd, l2_recvd,
               status, starting_block>>

\* the tasks' calls and the cache's lock
acq_vars == <<calls, lock, stored>>

p2p_vars == <<peers_with_capability, hs, ts, debug_assertions, acq_vars>>

vars == <<sync_vars, p2p_vars>>

\* protocol::Headers::NAME, protocol::Transactions::NAME
Headers_NAME == "headers"
Transactions_NAME == "transactions"
Capabilities == {Headers_NAME, Transactions_NAME}

\* PeersWithCapability::new: no capability stored, last_update = now
PeersWithCapability_new ==
  [set |-> [capability \in Capabilities |-> Nil], elapsed |-> 0]

\* a stream that was not created yet
NoStream == [pc |-> "idle"]

\* At most MaxTasks tasks poll streams of the client at once.
MaxTasks == 2
Tasks == 1..MaxTasks

\* a task that is not inside get_update_peers_with_sync_capability
NoCall == [pc |-> "idle", n |-> 0]

\* RwLock::new: nobody holds the lock, nobody waits for it
RwLock_new == [readers |-> {}, writer |-> Nil, queue |-> <<>>]

\* no task has called yet, no set was stored
NoCalls ==
  /\ calls = [t \in Tasks |-> NoCall]
  /\ lock = RwLock_new
  /\ stored = [capability \in Capabilities |-> Nil]

\* Client::new; no stream is created
Client_new ==
  /\ peers_with_capability = PeersWithCapability_new
  /\ hs = NoStream
  /\ ts = NoStream
  /\ debug_assertions = FALSE
  /\ NoCalls

\* the channels and the producer tasks
tasks == <<rx_l1, rx_l2, l1_task, l2_task, l1_head, l2_head, restarts,
           l1_sent, l2_sent, l1_recvd, l2_recvd>>

\* .map(|block| (block.number, block.hash)) of the latest L2 block
L2Head(d) ==
  LET latest == StarknetBlocksTable_latest(d.starknet_blocks)
  IN IF latest = Nil THEN Nil ELSE Some(<<latest[1].number, latest[1].hash>>)

\* StarknetBlockHash(StarkHash::ZERO): block hashes are pairs, this is none of them
ZERO_HASH == <<>>

\* SyncStatus::False
SyncStatus_False == [syncing |-> FALSE]

\* SyncStatus::Status(syncing::Status { .. })
SyncStatus_Status(starting, current, highest) ==
  [syncing |-> TRUE, starting_block |-> starting,
   current_block |-> current, highest_block |-> highest]

NoEvent == [kind |-> "none"]
NoLast == [ev |-> NoEvent, pre |-> EmptyDb, ok |-> TRUE, err |-> "none"]

\* The end of a handler: the transaction is committed, or the error is returned
\* with `?`, the transaction is dropped and sync ends.
Handled(r) ==
  /\ driver = "handling"
  /\ db' = r.db
  /\ driver' = IF r.ok THEN "handled" ELSE "failed"
  /\ cur' = NoEvent
  /\ last' = [ev |-> cur, pre |-> db, ok |-> r.ok, err |-> r.err]
  /\ UNCHANGED <<received, tasks, p2p_vars>>

\* sync, Some(l1::Event::Update(updates))
SyncL1Update ==
  /\ cur.kind = "L1Update"
  /\ Handled(l1_update(db, cur.updates))
  /\ UNCHANGED <<status, starting_block, p2p_vars>>

\* sync, Some(l1::Event::Reorg(reorg_tail))
SyncL1Reorg ==
  /\ cur.kind = "L1Reorg"
  /\ Handled(l1_reorg(db, cur.reorg_tail))
  /\ UNCHANGED <<status, starting_block, p2p_vars>>

\* sync, Some(l2::Event::Update(block, diff, timings)): the store is updated
\* and then current_block of a Status is set to the block's hash.
SyncL2Update ==
  /\ cur.kind = "L2Update"
  /\ LET r == l2_update(db, cur.block, cur.diff)
     IN /\ Handled(r)
        /\ status' = IF r.ok /\ status.syncing
                       THEN [status EXCEPT !.current_block = cur.block.block_hash]
                       ELSE status
  /\ UNCHANGED starting_block

\* sync, Some(l2::Event::Reorg(reorg_tail))
SyncL2Reorg ==
  /\ cur.kind = "L2Reorg"
  /\ Handled(l2_reorg(db, cur.reorg_tail))
  /\ UNCHANGED <<status, starting_block, p2p_vars>>

\* The handler's arm ends (its log line is written) and the loop selects again.
SyncLoop ==
  /\ driver = "handled"
  /\ driver' = "select"
  /\ last' = NoLast
  /\ UNCHANGED <<db, cur, received, tasks, status, starting_block, p2p_vars>>

\* --------------------------------------- the driver over any event sequence

\* select! yields the next event of one of the two producers.
StoreRecv(ev) ==
  /\ driver = "select"
  /\ received < MaxEvents
  /\ driver' = "handling"
  /\ cur' = ev
  /\ received' = received + 1
  /\ UNCHANGED <<db, last, tasks, status, starting_block, p2p_vars>>

\* sync, lines 69-93: the channels are created, the heads are read from the
\* store and the producers are spawned with them.
SyncStart ==
  /\ driver = "select"
  /\ cur = NoEvent
  /\ last = NoLast
  /\ received = 0
  /\ rx_l1 = <<>>
  /\ rx_l2 = <<>>
  /\ l1_head = L1StateTable_latest(db.l1_state)
  /\ l2_head = L2Head(db)
  /\ l1_task = "running"
  /\ l2_task = "running"
  /\ restarts = 0
  /\ l1_sent = 0
  /\ l2_sent = 0
  /\ l1_recvd = 0
  /\ l2_recvd = 0
  /\ status = SyncStatus_False
  /\ starting_block = (IF l2_head = Nil THEN ZERO_HASH ELSE l2_head[1][2])

InitStore ==
  /\ db = EmptyDb
  /\ SyncStart
  /\ Client_new

NextStore ==
  \/ \E ev \in L1Events \cup L2Events : StoreRecv(ev)
  \/ SyncL1Update
  \/ SyncL1Reorg
  \/ SyncL2Update
  \/ SyncL2Reorg
  \/ SyncLoop

SpecStore == InitStore /\ [][NextStore]_vars

\* ------------------------------------------ the driver and its producers

Log(n, r) == [block_number |-> n, global_root |-> r]

BlockRow(n, r) == [number |-> n, hash |-> BlockHashOf(n, r), root |-> r]

L1UpdateEv(updates) == [kind |-> "L1Update", updates |-> updates]

\* L2 Update of a block with as many receipts as transactions
L2UpdateEv(n, r, d) ==
  [kind |-> "L2Update",
   block |-> [block_number |-> n, block_hash |-> BlockHashOf(n, r), state_root |-> r,
              transactions |-> 1, transaction_receipts |-> 1],
   diff |-> d]

\* mpsc::channel(1)
ChannelCapacity == 1

\* Mutant: the channel takes one event more than its capacity.
CanSend_OneMore(rx) == Len(rx) <= ChannelCapacity

\* Mutant: a send never waits.
CanSend_Unbounded(rx) == Len(rx) >= 0

\* Sender::send completes when the channel has room, and waits otherwise.
CanSend(rx) == Len(rx) < ChannelCapacity

\* What the producers of this specification send.
ProducedL1 ==
  {L1UpdateEv(<<Log(h, ZERO)>>) : h \in {0, 1}}
    \cup {[kind |-> "L1Reorg", reorg_tail |-> 1]}
ProducedL2 ==
  {L2UpdateEv(h, ZERO, EmptyDiff) : h \in {0, 1}}
    \cup {[kind |-> "L2Reorg", reorg_tail |-> 1]}

\* How a producer task ends.
Exits == {"ok", "err", "panicked"}

\* events sent so far
Sent == received + Len(rx_l1) + Len(rx_l2)

\* The L1 producer completes a send.
L1Send(ev) ==
  /\ driver # "failed"
  /\ l1_task = "running"
  /\ CanSend(rx_l1)
  /\ Sent < MaxSent
  /\ rx_l1' = Append(rx_l1, <<l1_sent + 1, ev>>)
  /\ l1_sent' = l1_sent + 1
  /\ UNCHANGED <<db, driver, cur, last, received,
                 rx_l2, l1_task, l2_task, l1_head, l2_head, restarts,
                 l2_sent, l1_recvd, l2_recvd, status, starting_block, p2p_vars>>

\* The L2 producer completes a send.
L2Send(ev) ==
  /\ driver # "failed"
  /\ l2_task = "running"
  /\ CanSend(rx_l2)
  /\ Sent < MaxSent
  /\ rx_l2' = Append(rx_l2, <<l2_sent + 1, ev>>)
  /\ l2_sent' = l2_sent + 1
  /\ UNCHANGED <<db, driver, cur, last, received,
                 rx_l1, l1_task, l2_task, l1_head, l2_head, restarts,
                 l1_sent, l1_recvd, l2_recvd, status, starting_block, p2p_vars>>

\* The L1 producer task ends and its sender is dropped.
L1Exit(how) ==
  /\ driver # "failed"
  /\ l1_task = "running"
  /\ restarts < MaxRestarts
  /\ l1_task' = how
  /\ UNCHANGED <<db, driver, cur, last, received,
                 rx_l1, rx_l2, l2_task, l1_head, l2_head, restarts,
                 l1_sent, l2_sent, l1_recvd, l2_recvd, status, starting_block, p2p_vars>>

\* The L2 producer task ends and its sender is dropped.
L2Exit(how) ==
  /\ driver # "failed"
  /\ l2_task = "running"
  /\ restarts < MaxRestarts
  /\ l2_task' = how
  /\ UNCHANGED <<db, driver, cur, last, received,
                 rx_l1, rx_l2, l1_task, l1_head, l2_head, restarts,
                 l1_sent, l2_sent, l1_recvd, l2_recvd, status, starting_block, p2p_vars>>

\* Mutant: the next event is received while the current one is handled.
SyncRecvL1_Preempting ==
  /\ driver \in {"select", "handling"}
  /\ rx_l1 # <<>>
  /\ driver' = "handling"
  /\ cur' = Head(rx_l1)[2]
  /\ rx_l1' = Tail(rx_l1)
  /\ received' = received + 1
  /\ l1_recvd' = l1_recvd + 1
  /\ UNCHANGED <<db, last, rx_l2, l1_task, l2_task, l1_head, l2_head, restarts,
                 l1_sent, l2_sent, l2_recvd, status, starting_block, p2p_vars>>

\* select!: rx_l1.recv() yields Some(event)
SyncRecvL1 ==
  /\ driver = "select"
  /\ rx_l1 # <<>>
  /\ driver' = "handling"
  /\ cur' = Head(rx_l1)[2]
  /\ rx_l1' = Tail(rx_l1)
  /\ received' = received + 1
  /\ l1_recvd' = l1_recvd + 1
  /\ UNCHANGED <<db, last, rx_l2, l1_task, l2_task, l1_head, l2_head, restarts,
                 l1_sent, l2_sent, l2_recvd, status, starting_block, p2p_vars>>

\* select!: rx_l2.recv() yields Some(event)
SyncRecvL2 ==
  /\ driver = "select"
  /\ rx_l2 # <<>>
  /\ driver' = "handling"
  /\ cur' = Head(rx_l2)[2]
  /\ rx_l2' = Tail(rx_l2)
  /\ received' = received + 1
  /\ l2_recvd' = l2_recvd + 1
  /\ UNCHANGED <<db, last, rx_l1, l1_task, l2_task, l1_head, l2_head, restarts,
                 l1_sent, l2_sent, l1_recvd, status, starting_block, p2p_vars>>

Closed(kind, task, ok, err) ==
  [ev |-> [kind |-> kind, exit |-> task], pre |-> db, ok |-> ok, err |-> err]

\* select!: rx_l1.recv() yields None. The task is joined; a JoinError (the
\* task panicked) is returned with `?`, otherwise the L1 head is read from the
\* store and the producer is spawned with it on a new channel.
SyncL1Closed ==
  /\ driver = "select"
  /\ rx_l1 = <<>>
  /\ l1_task \in Exits
  /\ IF l1_task = "panicked"
       THEN /\ driver' = "failed"
            /\ last' = Closed("L1Closed", l1_task, FALSE, "Join L1 sync process handle")
            /\ UNCHANGED <<rx_l1, l1_task, l1_head, restarts>>
       ELSE /\ driver' = "handled"
            /\ last' = Closed("L1Closed", l1_task, TRUE, "none")
            /\ l1_head' = L1StateTable_latest(db.l1_state)
            /\ rx_l1' = <<>>
            /\ l1_task' = "running"
            /\ restarts' = restarts + 1
  /\ UNCHANGED <<db, cur, received, rx_l2, l2_task, l2_head,
                 l1_sent, l2_sent, l1_recvd, l2_recvd, status, starting_block, p2p_vars>>

\* select!: rx_l2.recv() yields None, likewise.
SyncL2Closed ==
  /\ driver = "select"
  /\ rx_l2 = <<>>
  /\ l2_task \in Exits
  /\ IF l2_task = "panicked"
       THEN /\ driver' = "failed"
            /\ last' = Closed("L2Closed", l2_task, FALSE, "Join L2 sync process handle")
            /\ UNCHANGED <<rx_l2, l2_task, l2_head, restarts>>
       ELSE /\ driver' = "handled"
            /\ last' = Closed("L2Closed", l2_task, TRUE, "none")
            /\ l2_head' = L2Head(db)
            /\ rx_l2' = <<>>
            /\ l2_task' = "running"
            /\ restarts' = restarts + 1
  /\ UNCHANGED <<db, cur, received, rx_l1, l1_task, l1_head,
                 l1_sent, l2_sent, l1_recvd, l2_recvd, status, starting_block, p2p_vars>>

\* What the sequencer answers as its latest block hash.
LatestHashes == {BlockHashOf(0, ZERO), BlockHashOf(1, ZERO)}

\* Mutant: a Status is written anew on every round.
update_sync_status_latest_Anew(latest) ==
  /\ status' = SyncStatus_Status(starting_block, starting_block, latest)
  /\ UNCHANGED <<db, driver, cur, last, received, tasks, starting_block, p2p_vars>>

\* One round of update_sync_status_latest, the sequencer's latest block
\* hash fetched.
update_sync_status_latest(latest) ==
  /\ status' = IF ~status.syncing
                 THEN SyncStatus_Status(starting_block, starting_block, latest)
                 ELSE IF status.highest_block # latest
                   THEN [status EXCEPT !.highest_block = latest]
                   ELSE status
  /\ UNCHANGED <<db, driver, cur, last, received, tasks, starting_block, p2p_vars>>

Init ==
  /\ db = EmptyDb
  /\ SyncStart
  /\ Client_new

Next ==
  \/ \E ev \in ProducedL1 : L1Send(ev)
  \/ \E ev \in ProducedL2 : L2Send(ev)
  \/ \E how \in Exits : L1Exit(how)
  \/ \E how \in Exits : L2Exit(how)
  \/ \E latest \in LatestHashes : update_sync_status_latest(latest)
  \/ SyncRecvL1
  \/ SyncRecvL2
  \/ SyncL1Closed
  \/ SyncL2Closed
  \/ SyncL1Update
  \/ SyncL1Reorg
  \/ SyncL2Update
  \/ SyncL2Reorg
  \/ SyncLoop

Spec == Init /\ [][Next]_vars

\* ------------------------------------------------------------ the claims

\* The event of `last` has been processed: committed, or failed.
Done == driver \in {"handled", "failed"}

\* (root, diff): on a store without L2 blocks the diff recomputes to the root ...
Recomputed == {<<ZERO, EmptyDiff>>, <<A, DeployDiff>>}
\* ... and does not
NotRecomputed == {<<A, EmptyDiff>>, <<ZERO, DeployDiff>>}

\* The store is as the first event of the run left it.
AfterFirst == received = 2

HeadIs(d, n) == d.l1_l2_head = Some(n)
HeadAbsent(d) == d.l1_l2_head = Nil

\* C1: whenever the composite head is present with value N, for every height
\* h <= N the L1 store holds a log at h, the L2 store holds a block at h, and
\* the block's root equals the log's global_root.
C1_HeadAgreement ==
  db.l1_l2_head # Nil =>
    \A h \in GENESIS..db.l1_l2_head[1] :
      /\ L1StateTable_get(db.l1_state, h) # Nil
      /\ StarknetBlocksTable_get(db.starknet_blocks, h) # Nil
      /\ StarknetBlocksTable_get(db.starknet_blocks, h)[1].root
           = L1StateTable_get(db.l1_state, h)[1].global_root

\* C2: right after an L1 Reorg(T) or an L2 Reorg(T) is committed the composite
\* head is absent or at most T-1, and it is absent when T = GENESIS.
C2_HeadBelowReorgTail ==
  (driver = "handled" /\ last.ev.kind \in {"L1Reorg", "L2Reorg"}) =>
    /\ HeadAbsent(db) \/ db.l1_l2_head[1] <= last.ev.reorg_tail - 1
    /\ last.ev.reorg_tail = GENESIS => HeadAbsent(db)

C2_Witness ==
  /\ driver = "handled"
  /\ last.ev.kind = "L2Reorg"
  /\ last.ev.reorg_tail = 1
  /\ HeadIs(last.pre, 1)
  /\ HeadIs(db, 0)

\* The store that holds the L1 log (0, root r) and nothing else: the empty
\* store after L1 Update([log(0, r)]), or a store loaded with the log at startup.
WithLog0(r) == [EmptyDb EXCEPT !.l1_state = {Log(0, r)}]

OnlyBlock0(d, r) ==
  /\ d.starknet_blocks = {BlockRow(0, r)}
  /\ d.l1_state = {}
  /\ HeadAbsent(d)

L1Log0OnHeadless ==
  /\ Done
  /\ last.ev.kind = "L1Update"
  /\ Len(last.ev.updates) = 1
  /\ last.ev.updates[1].block_number = 0
  /\ HeadAbsent(last.pre)
  /\ L1StateTable_get(last.pre.l1_state, 0) = Nil

OnlyLog0(d, r) ==
  /\ d.l1_state = {Log(0, r)}
  /\ d.starknet_blocks = {}
  /\ HeadAbsent(d)

L1ReorgRemoval ==
  LET T == last.ev.reorg_tail
  IN /\ driver = "handled"
     /\ db.l1_state = {r \in last.pre.l1_state : r.block_number < T}
     /\ (last.pre.l1_l2_head # Nil /\ last.pre.l1_l2_head[1] >= T)
          => db.l1_l2_head = (IF T = GENESIS THEN Nil ELSE Some(T - 1))
     /\ T = GENESIS => L1StateTable_latest(db.l1_state) = Nil

\* C7 as stated: L1 Reorg(T) removes exactly the logs at or above T, the
\* latest L1 log afterwards is at T-1 (none when T = GENESIS), and a head at
\* or above T becomes T-1 (absent when T = GENESIS).
C7_L1Reorg_AsStated ==
  (Done /\ last.ev.kind = "L1Reorg") =>
    /\ L1ReorgRemoval
    /\ last.ev.reorg_tail > GENESIS =>
         /\ L1StateTable_latest(db.l1_state) # Nil
         /\ L1StateTable_latest(db.l1_state)[1].block_number = last.ev.reorg_tail - 1

\* C7 (amended): L1 Reorg(T) removes exactly the logs at or above T and keeps
\* every log below T; the latest L1 log afterwards is the highest log that was
\* stored below T: at T-1 when a log at T-1 was stored, lower or none
\* otherwise, none when T = GENESIS. A head at or above T becomes T-1 (absent
\* when T = GENESIS) and a head below T is kept.
C7_L1Reorg ==
  (Done /\ last.ev.kind = "L1Reorg") =>
    LET T == last.ev.reorg_tail
        latest == L1StateTable_latest(db.l1_state)
        below == {r \in last.pre.l1_state : r.block_number < T}
    IN /\ L1ReorgRemoval
       /\ below = {} => latest = Nil
       /\ below # {} =>
            /\ latest # Nil
            /\ latest[1] \in below
            /\ \A r \in below : r.block_number <= latest[1].block_number
       /\ (T > GENESIS /\ L1StateTable_get(last.pre.l1_state, T - 1) # Nil)
            => (latest # Nil /\ latest[1].block_number = T - 1)
       /\ (last.pre.l1_l2_head # Nil /\ last.pre.l1_l2_head[1] < T)
            => db.l1_l2_head = last.pre.l1_l2_head

\* S4: head 1, Reorg(1) gives head 0 and the log at 1 is gone
C7_Witness ==
  /\ driver = "handled"
  /\ last.ev.kind = "L1Reorg"
  /\ last.ev.reorg_tail = 1
  /\ HeadIs(last.pre, 1)
  /\ L1StateTable_get(last.pre.l1_state, 1) # Nil
  /\ HeadIs(db, 0)
  /\ L1StateTable_get(db.l1_state, 1) = Nil
  /\ L1StateTable_get(db.l1_state, 0) # Nil

\* C8: an L2 Update whose recomputed root differs from block.state_root, or
\* whose numbers of transactions and receipts differ, fails; a failed L2 Update
\* ends sync with an error and leaves the store exactly as it was before the
\* event: no block row, transaction data, contract state, tree node or head
\* change of the event is visible.
C8_FailedL2UpdateRollsBack ==
  (Done /\ last.ev.kind = "L2Update") =>
    /\ update_starknet_state(last.pre, last.ev.diff).ok
         /\ update_starknet_state(last.pre, last.ev.diff).root # last.ev.block.state_root
         => (~last.ok /\ last.err = "State root mismatch")
    /\ last.ev.block.transactions # last.ev.block.transaction_receipts => ~last.ok
    /\ ~last.ok => (driver = "failed" /\ db = last.pre)
    /\ last.ok => driver = "handled"

\* the diff deployed a contract and the block row was written before the
\* transactions and receipts were found to differ in number
C8_Witness ==
  /\ driver = "failed"
  /\ last.ev.kind = "L2Update"
  /\ last.err = "Transactions and receipts mismatch"
  /\ last.ev.diff = DeployDiff
  /\ last.pre.contracts = {}
  /\ db = last.pre

\* C9: when a producer's channel closes the driver joins the task and,
\* whether the task returned Ok, returned an error or panicked, reads that
\* side's latest head from the store (the latest L1 log, the latest L2 block's
\* number and hash), respawns the producer with it on a new channel and keeps
\* running.
C9_RestartWhateverTheExit ==
  (Done /\ last.ev.kind \in {"L1Closed", "L2Closed"}) =>
    /\ driver = "handled"
    /\ last.ev.kind = "L1Closed" => l1_head = L1StateTable_latest(db.l1_state)
    /\ last.ev.kind = "L2Closed" => l2_head = L2Head(db)

L1SendEnabled == ENABLED (\E ev \in ProducedL1 : L1Send(ev))
L2SendEnabled == ENABLED (\E ev \in ProducedL2 : L2Send(ev))

\* C10: a channel never holds more than one event. A running producer's send
\* into an empty channel completes at once; while the channel holds the event
\* sent before, the next send cannot complete: it waits until the driver has
\* received that event.
C10_Backpressure ==
  /\ Len(rx_l1) <= 1
  /\ Len(rx_l2) <= 1
  /\ (driver # "failed" /\ Sent < MaxSent) =>
       /\ (l1_task = "running" /\ rx_l1 = <<>>) => L1SendEnabled
       /\ (l2_task = "running" /\ rx_l2 = <<>>) => L2SendEnabled
  /\ rx_l1 # <<>> => ~L1SendEnabled
  /\ rx_l2 # <<>> => ~L2SendEnabled

\* the second event of the L1 producer is in the channel while the driver
\* handles the first
C10_Witness ==
  /\ driver = "handling"
  /\ received = 1
  /\ cur \in ProducedL1
  /\ Len(rx_l1) = 1
  /\ l1_task = "running"

\* The driver has received an event of the L1 (L2) producer and has not yet
\* committed or failed it.
HandlingL1 == driver = "handling" /\ cur.kind \in {"L1Update", "L1Reorg", "QueryUpdate"}
HandlingL2 ==
  driver = "handling"
    /\ cur.kind \in {"L2Update", "L2Reorg", "QueryHash", "QueryContractExistance"}

\* C11 as stated: a producer's send of event k+1 never completes while the
\* driver has not committed (or failed) that producer's event k: while the
\* driver handles a producer's event, that producer's channel is empty.
C11_NoSendBeforeCommit_AsStated ==
  /\ HandlingL1 => rx_l1 = <<>>
  /\ HandlingL2 => rx_l2 = <<>>

\* C11 (amended): a producer's send of event k+1 never completes while the
\* driver has not received its event k, and its send of event k+2 never
\* completes while the driver has not committed (or failed) event k: a
\* producer is at most one completed send ahead of the event the driver is
\* handling, and that send completes while the event is still uncommitted.
C11_OneSendAhead ==
  /\ Len(rx_l1) <= 1
  /\ Len(rx_l2) <= 1
  /\ Len(rx_l1) + (IF HandlingL1 THEN 1 ELSE 0) <= 2
  /\ Len(rx_l2) + (IF HandlingL2 THEN 1 ELSE 0) <= 2
  /\ (HandlingL1 /\ rx_l1 # <<>>) => ~L1SendEnabled
  /\ (HandlingL2 /\ rx_l2 # <<>>) => ~L2SendEnabled

\* the L2 producer's second send has completed and the driver has not
\* committed its first event
C11_Witness ==
  /\ HandlingL2
  /\ received = 1
  /\ Len(rx_l2) = 1
  /\ db = EmptyDb

\* C12: sync stops with an error only when a store operation failed or when
\* an L2 Update's recomputed root differs from block.state_root; no other
\* event content and no producer behaviour makes it exit.
C12_OnlyStoreErrorOrRootMismatch ==
  driver = "failed" =>
    last.err \in {"Insert update", "Insert block into database",
                  "Updating Starknet state", "State root mismatch"}

\* What C13 says of one step of the driver and its producers.
C13_Step ==
  /\ received' # received =>
       /\ driver # "handling"
       /\ driver' = "handling"
       /\ \/ /\ rx_l1 # <<>>
             /\ Head(rx_l1)[1] = l1_recvd + 1
             /\ cur' = Head(rx_l1)[2]
             /\ l1_recvd' = l1_recvd + 1
             /\ UNCHANGED <<rx_l2, l2_recvd>>
          \/ /\ rx_l2 # <<>>
             /\ Head(rx_l2)[1] = l2_recvd + 1
             /\ cur' = Head(rx_l2)[2]
             /\ l2_recvd' = l2_recvd + 1
             /\ UNCHANGED <<rx_l1, l1_recvd>>
  /\ db' # db => (driver = "handling" /\ driver' = "handled" /\ last'.ev = cur)
  /\ (driver = "handling" /\ driver' # "handling") => last'.ev = cur
  /\ (driver = "handling" /\ driver' = "handling") => cur' = cur

\* C13: the driver handles one event at a time and in producer order: the
\* events of one producer are received, and applied to the store, in the
\* order they were sent, none skipped, also across producer restarts; no event
\* is received from either channel while the current event is neither
\* committed nor failed.
C13_OneAtATimeInOrder == [][C13_Step]_vars

\* the second event of the L1 producers is handled after a restart
C13_Witness ==
  /\ HandlingL1
  /\ l1_recvd = 2
  /\ l1_sent = 2
  /\ restarts >= 1

\* ------------------------------- the driver over two in-order producers

\* The state diff of the chain's block n.
ChainDiff(n) == IF n = 1 THEN DeployDiff ELSE IF n = 2 THEN UpdateDiff ELSE EmptyDiff

\* The store holding the chain's blocks below n and nothing else, and the
\* chain's block n: its root is the one update_starknet_state computes on
\* top of the blocks below it.
RECURSIVE ChainDb(_)
ChainBlock(n) ==
  LET root == update_starknet_state(ChainDb(n), ChainDiff(n)).root
  IN L2UpdateEv(n, root, ChainDiff(n))
ChainDb(n) ==
  IF n = GENESIS THEN EmptyDb
  ELSE LET below == ChainBlock(n - 1)
       IN l2_update(ChainDb(n - 1), below.block, below.diff).db

\* The L1 log of height n carries the root of the chain's block n.
ChainLog(n) == Log(n, ChainBlock(n).block.state_root)

\* The next height of each side: the producers start from the stored heads and
\* deliver every height once, in order.
NextL1(d) ==
  IF L1StateTable_latest(d.l1_state) = Nil THEN GENESIS
  ELSE L1StateTable_latest(d.l1_state)[1].block_number + 1
NextL2(d) ==
  IF StarknetBlocksTable_latest(d.starknet_blocks) = Nil THEN GENESIS
  ELSE StarknetBlocksTable_latest(d.starknet_blocks)[1].number + 1

\* select! yields an L1 Update with the next k logs.
InOrderRecvL1(k) ==
  /\ driver = "select"
  /\ NextL1(db) + k - 1 <= MaxBlock
  /\ driver' = "handling"
  /\ cur' = L1UpdateEv([i \in 1..k |-> ChainLog(NextL1(db) + i - 1)])
  /\ received' = received + 1
  /\ UNCHANGED <<db, last, tasks, status, starting_block, p2p_vars>>

\* select! yields the L2 Update of the next block.
InOrderRecvL2 ==
  /\ driver = "select"
  /\ NextL2(db) <= MaxBlock
  /\ driver' = "handling"
  /\ cur' = ChainBlock(NextL2(db))
  /\ received' = received + 1
  /\ UNCHANGED <<db, last, tasks, status, starting_block, p2p_vars>>

NextInOrder ==
  \/ \E k \in 1..(MaxBlock + 1) : InOrderRecvL1(k)
  \/ InOrderRecvL2
  \/ SyncL1Update
  \/ SyncL2Update
  \/ SyncLoop

SpecInOrder == InitStore /\ [][NextInOrder]_vars

\* min(latest stored L1 height, latest stored L2 height), None while either
\* side is empty
MinOfLatest(d) ==
  IF NextL1(d) = GENESIS \/ NextL2(d) = GENESIS THEN Nil
  ELSE Some(IF NextL1(d) <= NextL2(d) THEN NextL1(d) - 1 ELSE NextL2(d) - 1)

\* C14: when the L1 batches deliver the logs 0..N in order and the L2
\* Updates the blocks 0..N in order, with equal roots at every height and no
\* reorg, in any interleaving: no event fails, after each committed event the
\* head is the minimum of the latest stored L1 height and the latest stored L2
\* height (absent while either side is empty), and it is N once all are
\* committed.
C14_Convergence ==
  /\ driver # "failed"
  /\ driver # "handling" => db.l1_l2_head = MinOfLatest(db)
  /\ (driver # "handling" /\ NextL1(db) = MaxBlock + 1 /\ NextL2(db) = MaxBlock + 1)
       => HeadIs(db, MaxBlock)

\* all logs and all blocks are committed, the last event being an L1 batch
\* of two logs that caught up with the blocks
C14_Witness ==
  /\ driver = "handled"
  /\ last.ev.kind = "L1Update"
  /\ Len(last.ev.updates) = 2
  /\ HeadIs(last.pre, MaxBlock - 2)
  /\ HeadIs(db, MaxBlock)
  /\ NextL1(db) = MaxBlock + 1
  /\ NextL2(db) = MaxBlock + 1

\* -------------------------------------- the driver started on a store

\* The store an event leaves: the handler's transaction committed, or dropped.
StoreAfter(d, ev) ==
  IF ev.kind = "L1Update" THEN l1_update(d, ev.updates).db
  ELSE IF ev.kind = "L1Reorg" THEN l1_reorg(d, ev.reorg_tail).db
  ELSE IF ev.kind = "L2Update" THEN l2_update(d, ev.block, ev.diff).db
  ELSE l2_reorg(d, ev.reorg_tail).db

\* The store a run of sync leaves that started on the empty store and handled
\* the first i of these events.
RECURSIVE StoreOfRun(_, _)
StoreOfRun(events, i) ==
  IF i = 0 THEN EmptyDb ELSE StoreAfter(StoreOfRun(events, i - 1), events[i])

\* Earlier runs of sync, ended by a crash after their last commit.
EarlierRuns ==
  {<<L2UpdateEv(0, ZERO, EmptyDiff), L1UpdateEv(<<Log(0, ZERO)>>)>>,
   <<L2UpdateEv(0, ZERO, EmptyDiff), L2UpdateEv(2, ZERO, EmptyDiff),
     L1UpdateEv(<<Log(0, ZERO), Log(2, ZERO)>>)>>}

\* sync starts on the store an earlier run left: lines 69-93 read the L1 head
\* and the L2 head from it and nothing else.
InitRestart ==
  /\ db \in {StoreOfRun(run, Len(run)) : run \in EarlierRuns}
  /\ SyncStart
  /\ Client_new

SpecRestart == InitRestart /\ [][NextStore]_vars

\* every height up to the head of d has a log and a block with equal roots
HeadAgrees(d) ==
  d.l1_l2_head # Nil =>
    \A h \in GENESIS..d.l1_l2_head[1] :
      /\ L1StateTable_get(d.l1_state, h) # Nil
      /\ StarknetBlocksTable_get(d.starknet_blocks, h) # Nil
      /\ StarknetBlocksTable_get(d.starknet_blocks, h)[1].root
           = L1StateTable_get(d.l1_state, h)[1].global_root

\* C15: after sync starts on an existing store, the stored head has been
\* checked against the stored logs and blocks before the first L1 or L2 Update
\* takes it as the base of expected_next: the head that update reads satisfies
\* the agreement invariant.
C15_HeadReverifiedAtStart ==
  (received = 1 /\ driver = "handling" /\ cur.kind \in {"L1Update", "L2Update"})
    => HeadAgrees(db)

\* ------------------------------------------ the driver and the queries

\* A query carries the sender of a oneshot channel; dropped tells whether the
\* requester has dropped the receiver by the time the reply is sent.
QueryEvents ==
  {[kind |-> k, block_number |-> n, dropped |-> b] :
     k \in {"QueryUpdate", "QueryHash"}, n \in Heights, b \in BOOLEAN}
    \cup {[kind |-> "QueryContractExistance", contracts |-> <<Class1>>, dropped |-> b] :
            b \in BOOLEAN}

\* l2::Event::NewContract(contract)
NewContractEvents == {[kind |-> "NewContract", hash |-> Class1]}

\* oneshot::Sender::send: the value reaches the receiver, or the send fails
\* because the receiver was dropped.
oneshot_send(value, dropped) ==
  IF dropped THEN [ok |-> FALSE, delivered |-> <<>>]
  ELSE [ok |-> TRUE, delivered |-> <<value>>]

\* Mutant: a failed send is returned as the handler's error.
Discard_Propagated(result) == result.ok

\* `let _ = ...`: the result is discarded, the handler goes on whatever it is.
Discard(result) == TRUE

\* The end of a query's handler: the value read is sent once on the query's
\* channel; nothing is written.
Replied(value) ==
  LET result == oneshot_send(value, cur.dropped)
  IN /\ driver = "handling"
     /\ driver' = IF Discard(result) THEN "handled" ELSE "failed"
     /\ cur' = NoEvent
     /\ last' = [ev |-> cur, pre |-> db, ok |-> Discard(result),
                 err |-> IF Discard(result) THEN "none" ELSE "send",
                 replies |-> <<value>>, delivered |-> result.delivered]
     /\ UNCHANGED <<db, received, tasks, status, starting_block, p2p_vars>>

\* sync, Some(l1::Event::QueryUpdate(block, tx))
SyncQueryUpdate ==
  /\ cur.kind = "QueryUpdate"
  /\ Replied(L1StateTable_get(db.l1_state, cur.block_number))

\* sync, Some(l2::Event::QueryHash(block, tx))
SyncQueryHash ==
  /\ cur.kind = "QueryHash"
  /\ LET block == StarknetBlocksTable_get(db.starknet_blocks, cur.block_number)
     IN Replied(IF block = Nil THEN Nil ELSE Some(block[1].hash))

\* sync, Some(l2::Event::QueryContractExistance(contracts, tx)); `existed` is
\* only logged and is left out.
SyncQueryContractExistance ==
  /\ cur.kind = "QueryContractExistance"
  /\ Replied(ContractCodeTable_exists(db.contract_code, cur.contracts))

\* sync, Some(l2::Event::NewContract(contract)): written without a transaction.
SyncNewContract ==
  /\ cur.kind = "NewContract"
  /\ Handled([ok |-> TRUE, err |-> "none",
              db |-> [db EXCEPT !.contract_code =
                        ContractCodeTable_insert_compressed(@, cur.hash)]])
  /\ UNCHANGED <<status, starting_block, p2p_vars>>

NextQuery ==
  \/ \E ev \in ProducedL1 \cup ProducedL2 \cup NewContractEvents \cup QueryEvents :
       StoreRecv(ev)
  \/ SyncL1Update
  \/ SyncL1Reorg
  \/ SyncL2Update
  \/ SyncL2Reorg
  \/ SyncNewContract
  \/ SyncQueryUpdate
  \/ SyncQueryHash
  \/ SyncQueryContractExistance
  \/ SyncLoop

SpecQuery == InitStore /\ [][NextQuery]_vars

QueryKinds == {"QueryUpdate", "QueryHash", "QueryContractExistance"}

\* C16: a query changes neither the store nor the composite head and never
\* makes the driver fail, also when the requester dropped its receiver; it is
\* answered once, before the driver selects again, from the store as the
\* events before it left it: QueryUpdate(block) with the stored L1 log of that
\* height or absence, QueryHash(block) with the hash of the stored L2 block of
\* that height or absence.
C16_Queries ==
  (Done /\ last.ev.kind \in QueryKinds) =>
       /\ driver = "handled"
       /\ db = last.pre
       /\ Len(last.replies) = 1
       /\ last.delivered = (IF last.ev.dropped THEN <<>> ELSE last.replies)
       /\ last.ev.kind = "QueryUpdate" =>
            LET logs == {r \in db.l1_state : r.block_number = last.ev.block_number}
            IN /\ logs = {} => last.replies[1] = Nil
               /\ \A r \in logs : last.replies[1] = Some(r)
       /\ last.ev.kind = "QueryHash" =>
            LET blocks == {r \in db.starknet_blocks : r.number = last.ev.block_number}
            IN /\ blocks = {} => last.replies[1] = Nil
               /\ \A r \in blocks : last.replies[1] = Some(r.hash)

\* a QueryHash for a stored block whose requester is gone, and a QueryUpdate
\* for a height without a log
C16_Witness ==
  /\ driver = "handled"
  /\ last.ev.kind = "QueryHash"
  /\ last.ev.dropped
  /\ last.replies = <<Some(BlockHashOf(1, ZERO))>>
  /\ db.l1_state # {}

\* The root update_starknet_state loads its tree from: the root of the latest
\* stored L2 block, or ZERO.
LatestRoot(d) ==
  LET latest == StarknetBlocksTable_latest(d.starknet_blocks)
  IN IF latest = Nil THEN ZERO ELSE latest[1].root

\* C17: state-updater round trip: right after an L2 Update is committed, the
\* root the next call of update_starknet_state loads, the root of the latest
\* stored L2 block, is the root update_starknet_state returned for that update.
C17_RoundTrip ==
  (driver = "handled" /\ last.ev.kind = "L2Update") =>
    LatestRoot(db) = update_starknet_state(last.pre, last.ev.diff).root

\* --------------------------------------------- the peer-agnostic client

\* block numbers header_stream and transaction_stream are called with
MaxPos == 2
\* items a stream yields in the model
MaxYield == 2
\* transactions of one response in the model
MaxTxs == 2
\* seconds the clock of the model advances by
TickSecs == 30

\* PeersWithCapability::default: Duration::from_secs(60)
timeout == 60

\* the other peers, and self.inner.peer_id()
Peers == {"p1", "p2"}
Self == "self"

\* Mutant: the set is missing already when exactly the timeout has elapsed.
PeersWithCapability_get_Early(c, capability) ==
  IF c.elapsed >= timeout THEN Nil ELSE c.set[capability]

\* PeersWithCapability::get: None once the timeout has elapsed
PeersWithCapability_get(c, capability) ==
  IF c.elapsed > timeout THEN Nil ELSE c.set[capability]

\* PeersWithCapability::update
PeersWithCapability_update(c, capability, peers) ==
  [set |-> [c.set EXCEPT ![capability] = Some(peers)], elapsed |-> 0]

\* peers.shuffle(&mut rand::thread_rng()): the set in any order
Shuffles(S) ==
  {p \in [1..Cardinality(S) -> S] : \A i, j \in 1..Cardinality(S) : p[i] = p[j] => i = j}

\* Time passes; the model stops its clock once the timeout has elapsed.
Tick ==
  /\ peers_with_capability.elapsed <= timeout
  /\ peers_with_capability' = [peers_with_capability EXCEPT !.elapsed = @ + TickSecs]
  /\ UNCHANGED <<hs, ts, debug_assertions, acq_vars, sync_vars>>

\* What get_capability_providers answers: an error, or a set of providers
\* with or without this node.
DiscoveryResults ==
  {[ok |-> FALSE, providers |-> {}]}
    \cup {[ok |-> TRUE, providers |-> S] : S \in SUBSET (Peers \cup {Self})}

\* Mutant: the stream ends when a peer gives nothing more.
continue_next_peer_Ends(s) == [s EXCEPT !.pc = "ended"]

\* continue 'next_peer, and the end of the `while let` loop: the `for` loop
\* goes on with the next peer
continue_next_peer(s) == [s EXCEPT !.pc = "next_peer"]

\* get_update_peers_with_sync_capability, lines 77-79: the cached set is
\* copied and shuffled, or the read lock is dropped for a discovery.
Acquire(s, capability) ==
  LET cached == PeersWithCapability_get(peers_with_capability, capability)
  IN IF cached # Nil
       THEN {[s EXCEPT !.pc = "next_peer", !.peers = p, !.acquired = cached[1],
                       !.via = "cache", !.requested = <<>>] :
               p \in Shuffles(cached[1])}
       ELSE {[s EXCEPT !.pc = "discover", !.requested = <<>>]}

\* lines 84-93: get_capability_providers(..).await.unwrap_or_default(), this
\* node's id is removed and debug_assert! checks that it was there.
Discover(s, result) ==
  LET providers == IF result.ok THEN result.providers ELSE {}
      _i_should_have_the_capability_too == Self \in providers
  IN IF debug_assertions /\ ~_i_should_have_the_capability_too
       THEN [s EXCEPT !.pc = "panicked"]
       ELSE [s EXCEPT !.pc = "update", !.found = providers \ {Self}]

\* lines 95-99: the set is stored under the write lock, then shuffled.
Update(s) ==
  {[s EXCEPT !.pc = "next_peer", !.peers = p, !.acquired = s.found,
             !.via = "discovery", !.found = {}] :
     p \in Shuffles(s.found)}

\* Mutant: the direction follows the order of start and stop.
DirectionOf_ByOrder(start, stop, reverse) ==
  IF start <= stop THEN "Forward" ELSE "Backward"

\* header_stream, lines 109-112: the direction of the stream
DirectionOf(start, stop, reverse) ==
  IF reverse THEN "Backward" ELSE "Forward"

NoRequest == [peer |-> "none"]

\* header_stream(start, stop, reverse): with reverse the stream runs from stop
\* to start. round_start, round_yielded and round_failed are kept to state
\* the claims: the position when the peers were last acquired, and the
\* headers yielded and the requests failed since.
HeaderStream(start, stop, reverse) ==
  /\ hs.pc = "idle"
  /\ hs' = [pc |-> "acquire",
            args |-> [start |-> start, stop |-> stop, reverse |-> reverse],
            start |-> IF reverse THEN stop ELSE start,
            stop |-> IF reverse THEN start ELSE stop,
            direction |-> DirectionOf(start, stop, reverse),
            peers |-> <<>>, acquired |-> {}, via |-> "none", found |-> {},
            requested |-> <<>>, request |-> NoRequest, yielded |-> 0,
            round_start |-> 0, round_yielded |-> 0, round_failed |-> 0]
  /\ UNCHANGED <<peers_with_capability, ts, debug_assertions, acq_vars, sync_vars>>

\* header_stream, lines 117-119
HeaderAcquire ==
  /\ hs.pc = "acquire"
  /\ hs' \in Acquire([hs EXCEPT !.round_start = hs.start, !.round_yielded = 0,
                              !.round_failed = 0],
                   Headers_NAME)
  /\ UNCHANGED <<peers_with_capability, ts, debug_assertions, acq_vars, sync_vars>>

HeaderDiscover(result) ==
  /\ hs.pc = "discover"
  /\ hs' = Discover(hs, result)
  /\ UNCHANGED <<peers_with_capability, ts, debug_assertions, acq_vars, sync_vars>>

HeaderUpdate ==
  /\ hs.pc = "update"
  /\ hs' \in Update(hs)
  /\ peers_with_capability' =
       PeersWithCapability_update(peers_with_capability, Headers_NAME, hs.found)
  /\ UNCHANGED <<ts, debug_assertions, acq_vars, sync_vars>>

\* Mutant: the limit is computed once, from the position the stream began at.
AbsDiff_Initial(a, b) ==
  LET initial == IF hs.args.reverse THEN hs.args.stop ELSE hs.args.start
  IN IF initial >= b THEN initial - b ELSE b - initial

\* max - min of two block numbers
AbsDiff(a, b) == IF a >= b THEN a - b ELSE b - a

\* header_stream, lines 122-142: the next peer of the list is sent a request
\* made from the current position; the request fails or a response starts.
HeaderRequest(response_ok) ==
  /\ hs.pc = "next_peer"
  /\ hs.peers # <<>>
  /\ LET peer == Head(hs.peers)
         request == [peer |-> peer, start |-> hs.start, direction |-> hs.direction,
                     limit |-> AbsDiff(hs.start, hs.stop), step |-> 1]
         sent == [hs EXCEPT !.peers = Tail(@), !.request = request,
                            !.requested = Append(@, peer)]
     IN hs' = IF response_ok THEN [sent EXCEPT !.pc = "draining"]
              ELSE continue_next_peer([sent EXCEPT !.round_failed = @ + 1])
  /\ UNCHANGED <<peers_with_capability, ts, debug_assertions, acq_vars, sync_vars>>

\* header_stream, line 116: the list is exhausted, the outer loop goes round.
HeaderExhausted ==
  /\ hs.pc = "next_peer"
  /\ hs.peers = <<>>
  /\ hs' = [hs EXCEPT !.pc = "acquire"]
  /\ UNCHANGED <<peers_with_capability, ts, debug_assertions, acq_vars, sync_vars>>

\* the items of a headers response: a header that converts, one that does
\* not, Fin, and the end of the response (responses.next() is None)
HeaderItems == {"Header", "Malformed", "Fin", "None"}

\* header_stream, lines 160-165
Advance(start, direction) ==
  IF direction = "Forward" THEN start + 1
  ELSE IF start = GENESIS THEN GENESIS ELSE start - 1

\* header_stream, lines 144-168: one item of the response
HeaderItem(item) ==
  /\ hs.pc = "draining"
  /\ IF item = "Header"
       THEN /\ hs.yielded < MaxYield
            /\ hs' = [hs EXCEPT !.start = Advance(@, hs.direction),
                                !.yielded = @ + 1, !.round_yielded = @ + 1]
       ELSE hs' = continue_next_peer(hs)
  /\ UNCHANGED <<peers_with_capability, ts, debug_assertions, acq_vars, sync_vars>>

\* the transactions peers send
Txs == {"t1", "t2"}

NoItem == [peer |-> "none"]

\* transaction_stream(block)
TransactionStream(block) ==
  /\ ts.pc = "idle"
  /\ ts' = [pc |-> "acquire", block |-> block,
            peers |-> <<>>, acquired |-> {}, via |-> "none", found |-> {},
            requested |-> <<>>, request |-> NoRequest, yielded |-> 0,
            transactions |-> <<>>, sent |-> <<>>, item |-> NoItem]
  /\ UNCHANGED <<peers_with_capability, hs, debug_assertions, acq_vars, sync_vars>>

\* transaction_stream, lines 188-190
TransactionAcquire ==
  /\ ts.pc = "acquire"
  /\ ts' \in Acquire(ts, Transactions_NAME)
  /\ UNCHANGED <<peers_with_capability, hs, debug_assertions, acq_vars, sync_vars>>

TransactionDiscover(result) ==
  /\ ts.pc = "discover"
  /\ ts' = Discover(ts, result)
  /\ UNCHANGED <<peers_with_capability, hs, debug_assertions, acq_vars, sync_vars>>

TransactionUpdate ==
  /\ ts.pc = "update"
  /\ ts' \in Update(ts)
  /\ peers_with_capability' =
       PeersWithCapability_update(peers_with_capability, Transactions_NAME, ts.found)
  /\ UNCHANGED <<hs, debug_assertions, acq_vars, sync_vars>>

\* Mutant: the accumulator of the previous response is kept.
Vec_new_Kept == ts.transactions

\* transaction_stream, line 215: the accumulator of one response
Vec_new == <<>>

\* transaction_stream, lines 193-213: the next peer of the list is asked for
\* the block; the request fails, or a response starts and the accumulator is
\* a new Vec.
TransactionRequest(response_ok) ==
  /\ ts.pc = "next_peer"
  /\ ts.peers # <<>>
  /\ LET peer == Head(ts.peers)
         request == [peer |-> peer, start |-> ts.block, direction |-> "Forward",
                     limit |-> 1, step |-> 1]
         sent == [ts EXCEPT !.peers = Tail(@), !.request = request,
                            !.requested = Append(@, peer),
                            !.transactions = Vec_new, !.sent = <<>>]
     IN ts' = IF response_ok THEN [sent EXCEPT !.pc = "draining"]
              ELSE continue_next_peer(sent)
  /\ UNCHANGED <<peers_with_capability, hs, debug_assertions, acq_vars, sync_vars>>

\* transaction_stream, line 187: the list is exhausted.
TransactionExhausted ==
  /\ ts.pc = "next_peer"
  /\ ts.peers = <<>>
  /\ ts' = [ts EXCEPT !.pc = "acquire"]
  /\ UNCHANGED <<peers_with_capability, hs, debug_assertions, acq_vars, sync_vars>>

\* the items of a transactions response: a transaction that converts, one
\* that does not, Fin, and the end of the response
TransactionItems ==
  {[kind |-> "Transaction", tx |-> t] : t \in Txs}
    \cup {[kind |-> k, tx |-> "none"] : k \in {"Malformed", "Fin", "None"}}

\* transaction_stream, lines 214-229: one item of the response. ts.sent is
\* what the peer has sent in this response (kept to state what is yielded).
TransactionItem(item) ==
  /\ ts.pc = "draining"
  /\ IF item.kind = "Transaction"
       THEN /\ Len(ts.transactions) < MaxTxs
            /\ ts' = [ts EXCEPT !.transactions = Append(@, item.tx),
                                !.sent = Append(@, item.tx)]
       ELSE IF item.kind = "Fin"
         THEN /\ ts.yielded < MaxYield
              /\ ts' = continue_next_peer(
                         [ts EXCEPT !.item = [peer |-> ts.request.peer,
                                              data |-> ts.transactions],
                                    !.yielded = @ + 1])
         ELSE ts' = continue_next_peer(ts)
  /\ UNCHANGED <<peers_with_capability, hs, debug_assertions, acq_vars, sync_vars>>

\* The client of the P2P specification: no stream created yet; the build is
\* a debug or a release build.
InitP2P ==
  /\ db = EmptyDb
  /\ SyncStart
  /\ peers_with_capability = PeersWithCapability_new
  /\ hs = NoStream
  /\ ts = NoStream
  /\ debug_assertions \in BOOLEAN
  /\ NoCalls

\* the header stream alone
NextHeaders ==
  \/ Tick
  \/ \E start, stop \in 0..MaxPos, reverse \in BOOLEAN : HeaderStream(start, stop, reverse)
  \/ HeaderAcquire
  \/ \E result \in DiscoveryResults : HeaderDiscover(result)
  \/ HeaderUpdate
  \/ \E response_ok \in BOOLEAN : HeaderRequest(response_ok)
  \/ HeaderExhausted
  \/ \E item \in HeaderItems : HeaderItem(item)

SpecHeaders == InitP2P /\ [][NextHeaders]_vars

\* One stream of either kind over the client.
NextStream ==
  \/ Tick
  \/ /\ ts.pc = "idle"
     /\ \E start, stop \in 0..MaxPos, reverse \in BOOLEAN : HeaderStream(start, stop, reverse)
  \/ HeaderAcquire
  \/ \E result \in DiscoveryResults : HeaderDiscover(result)
  \/ HeaderUpdate
  \/ \E response_ok \in BOOLEAN : HeaderRequest(response_ok)
  \/ HeaderExhausted
  \/ \E item \in HeaderItems : HeaderItem(item)
  \/ /\ hs.pc = "idle"
     /\ \E block \in 0..MaxPos : TransactionStream(block)
  \/ TransactionAcquire
  \/ \E result \in DiscoveryResults : TransactionDiscover(result)
  \/ TransactionUpdate
  \/ \E response_ok \in BOOLEAN : TransactionRequest(response_ok)
  \/ TransactionExhausted
  \/ \E item \in TransactionItems : TransactionItem(item)

SpecStream == InitP2P /\ [][NextStream]_vars

\* What C18 says of one step of a stream, s before and t after it.
GoesOn(s, t) ==
  t # s =>
    /\ t.pc # "ended"
    /\ (s.pc = "draining" /\ t.pc # "draining") =>
         (t.pc = "next_peer" /\ t.peers = s.peers)
    /\ (s.pc = "next_peer" /\ s.peers # <<>>) =>
         /\ t.pc \in {"draining", "next_peer"}
         /\ t.peers = Tail(s.peers)
         /\ t.request.peer = Head(s.peers)
    /\ (s.pc = "next_peer" /\ s.peers = <<>>) => t.pc = "acquire"
    /\ s.pc = "acquire" => t.pc \in {"next_peer", "discover"}

\* C18: the header stream and the transaction stream never end: whatever the
\* peers do (a request that fails, a malformed item, Fin, a response that
\* ends without Fin, an empty peer set), no step of a stream ends it; a peer
\* that gives nothing more makes the stream go on to the next peer of the
\* list, and an exhausted list makes it acquire peers again.
C18_StreamsNeverEnd == [][GoesOn(hs, hs') /\ GoesOn(ts, ts')]_vars

\* the transaction stream acquires peers again after a round in which both
\* peers were asked and nothing was yielded, the last response having ended
\* without Fin after a transaction
C18_Witness ==
  /\ ts.pc = "acquire"
  /\ Len(ts.requested) = 2
  /\ ts.yielded = 0
  /\ ts.transactions # <<>>

\* a round of the header stream is over and every request of it failed
RoundFailed(s) == s.via # "none" /\ s.round_failed = Len(s.requested)

\* in a failed round every peer of the set was requested once, nothing was
\* yielded and the position did not move
C19_FailedRound ==
  (hs.pc = "acquire" /\ RoundFailed(hs)) =>
    /\ Len(hs.requested) = Cardinality(hs.acquired)
    /\ {hs.requested[i] : i \in 1..Len(hs.requested)} = hs.acquired
    /\ hs.round_yielded = 0
    /\ hs.start = hs.round_start

\* C19: peer rotation liveness: when every peer of the capability set fails
\* its request, each peer is requested once in that round, the header stream
\* yields nothing and its position does not move, and the next round starts
\* only after a re-discovery of the peers (the peer set being empty
\* included): the stream does not go round on the cached set.
C19_RotationLiveness ==
  [][/\ C19_FailedRound
     /\ (hs.pc = "acquire" /\ RoundFailed(hs) /\ hs' # hs) => hs'.pc = "discover"]_vars

\* a request of the header stream has been sent
HeaderRequested == hs.pc # "idle" /\ hs.request # NoRequest

Range(seq) == {seq[i] : i \in 1..Len(seq)}

\* What C21 says of one step of a stream for a capability, s before and t
\* after it.
CacheStep(s, t, capability) ==
  LET c == peers_with_capability
      fresh == c.elapsed <= timeout
  IN t # s =>
       /\ s.pc = "acquire" =>
            IF fresh /\ c.set[capability] # Nil
              THEN /\ t.pc = "next_peer"
                   /\ t.via = "cache"
                   /\ Range(t.peers) = c.set[capability][1]
                   /\ UNCHANGED peers_with_capability
              ELSE /\ t.pc = "discover"
                   /\ UNCHANGED peers_with_capability
       /\ s.pc = "discover" =>
            /\ t.pc \in {"update", "panicked"}
            /\ t.pc = "panicked" => debug_assertions
            /\ t.pc = "update" => Self \notin t.found
            /\ UNCHANGED peers_with_capability
       /\ s.pc = "update" =>
            /\ t.pc = "next_peer"
            /\ t.via = "discovery"
            /\ Range(t.peers) = s.found
            /\ peers_with_capability'.elapsed = 0
            /\ peers_with_capability'.set[capability] = Some(s.found)

\* C21: the peer cache returns the stored set of a capability only while no
\* more than the timeout (60 s) has elapsed since the last update; once it has
\* elapsed every capability reads as missing; on a miss the client runs a
\* discovery, whose result (without this node's id) is stored for the
\* capability and resets the clock, unless the debug assertion on this node's
\* id ends the task.
C21_CacheTtl ==
  [][/\ CacheStep(hs, hs', Headers_NAME)
     /\ CacheStep(ts, ts', Transactions_NAME)
     /\ peers_with_capability.elapsed > timeout =>
          \A capability \in Capabilities :
            PeersWithCapability_get(peers_with_capability, capability) = Nil]_vars

\* the header stream has its peers from a second discovery, made after the
\* set of the first one had expired, and the clock is reset
C21_Witness ==
  /\ hs.pc = "next_peer"
  /\ hs.via = "discovery"
  /\ hs.requested = <<>>
  /\ hs.yielded > 0
  /\ hs.peers # <<>>
  /\ peers_with_capability.elapsed = 0

\* ------------------------------------ the driver and the status publisher

\* sync starts on the empty store or on the store an earlier run left.
InitStatus ==
  /\ db \in {EmptyDb} \cup {StoreOfRun(run, Len(run)) : run \in EarlierRuns}
  /\ SyncStart
  /\ Client_new

\* the L2 events of this specification
StatusEvents ==
  {L2UpdateEv(h, ZERO, EmptyDiff) : h \in Heights}
    \cup {[kind |-> "L2Reorg", reorg_tail |-> 1]}

NextStatus ==
  \/ \E ev \in StatusEvents : StoreRecv(ev)
  \/ SyncL2Update
  \/ SyncL2Reorg
  \/ SyncLoop
  \/ \E latest \in LatestHashes : update_sync_status_latest(latest)

\* The publisher's task runs whatever the driver does; its fetch is retried
\* until it succeeds, and a round of it is a fetch that succeeded.
SpecStatus ==
  /\ InitStatus
  /\ [][NextStatus]_vars
  /\ WF_vars(\E latest \in LatestHashes : update_sync_status_latest(latest))

\* What C22 says of one step: the publisher's steps are the ones that leave
\* the driver where it is.
C22_Step ==
  /\ status.syncing => status'.syncing
  /\ (status' # status /\ driver' = driver) =>
       IF ~status.syncing
         THEN \E latest \in LatestHashes :
                status' = [syncing |-> TRUE,
                           starting_block |->
                             (IF l2_head = Nil THEN ZERO_HASH ELSE l2_head[1][2]),
                           current_block |->
                             (IF l2_head = Nil THEN ZERO_HASH ELSE l2_head[1][2]),
                           highest_block |-> latest]
         ELSE /\ status'.starting_block = status.starting_block
              /\ status'.current_block = status.current_block
              /\ status'.highest_block \in LatestHashes

\* C22: the status publisher changes the status only from False to
\* Status{starting = the hash of the L2 head read when sync started (ZERO if
\* none), current = starting, highest = latest} and, from a Status, in
\* highest alone; the status never goes back from Status to False; and when
\* the publisher's fetch succeeds the status eventually is a Status.
C22_StatusPublisher == [][C22_Step]_vars /\ <>(status.syncing)

\* sync started on a store with block 0, the publisher has set the Status and
\* then a new highest block, the driver has committed block 1
C22_Witness ==
  /\ status.syncing
  /\ status.starting_block = BlockHashOf(0, ZERO)
  /\ status.current_block = BlockHashOf(1, ZERO)
  /\ status.highest_block = BlockHashOf(1, ZERO)

\* What C23 says of one step of the transaction stream; ts.sent is what the
\* peer of the running request has sent in its response so far.
C23_Step ==
  /\ ts'.yielded # ts.yielded =>
       /\ ts.pc = "draining"
       /\ ts'.yielded = ts.yielded + 1
       /\ ts'.item = [peer |-> ts.request.peer, data |-> ts.sent]
       /\ ts'.pc = "next_peer"
  /\ ts'.yielded = ts.yielded => ts'.item = ts.item
  /\ (ts.pc = "next_peer" /\ ts' # ts /\ ts'.pc \in {"draining", "next_peer"}) =>
       /\ ts'.request.peer = Head(ts.peers)
       /\ ts'.request.start = ts.block
       /\ ts'.peers = Tail(ts.peers)
       /\ ts'.sent = <<>>
       /\ ts'.pc = "draining" => ts'.transactions = <<>>

\* C23: every item transaction_stream yields pairs the peer of one request
\* with exactly the transactions that peer sent in that response before Fin,
\* in the order received; nothing is yielded before Fin, a malformed item or
\* the end of the response without Fin yields nothing of the accumulator, and
\* the next request goes to the next peer of the list with a new accumulator.
C23_TransactionItems == [][ts.pc # "idle" => C23_Step]_vars

\* the second peer asked has sent two transactions and Fin
C23_Witness ==
  /\ ts.pc = "next_peer"
  /\ ts.yielded > 0
  /\ Len(ts.requested) >= 2
  /\ ts.item.peer = ts.requested[Len(ts.requested)]
  /\ Len(ts.item.data) = 2

\* C24: once the driver has committed an L2 Update, a status that is a Status
\* reports the hash of that block as current_block, whatever the publisher
\* has done in between.
C24_CurrentIsLastCommitted ==
  (driver = "handled" /\ last.ev.kind = "L2Update" /\ last.ok /\ status.syncing) =>
    status.current_block = last.ev.block.block_hash

\* The log has a stored L2 block at its height with an equal root.
LogAgrees(d, log) ==
  \E b \in d.starknet_blocks :
    b.number = log.block_number /\ b.root = log.global_root

\* The length of the longest prefix of the update whose logs all agree.
AgreeingPrefix(d, updates) ==
  CHOOSE k \in 0..Len(updates) :
    /\ \A i \in 1..k : LogAgrees(d, updates[i])
    /\ k < Len(updates) => ~LogAgrees(d, updates[k + 1])

C26_L2Forward ==
  (driver = "handled" /\ last.ev.kind = "L2Update") =>
    LET block == last.ev.block
        n == block.block_number
        head == last.pre.l1_l2_head
        expected_next == IF head = Nil THEN GENESIS ELSE head[1] + 1
        agreed == \E log \in last.pre.l1_state :
                    log.block_number = n /\ log.global_root = block.state_root
    IN /\ (n = expected_next /\ agreed) <=> (db.l1_l2_head = Some(n) /\ db.l1_l2_head # head)
       /\ ~(n = expected_next /\ agreed) => db.l1_l2_head = head
       /\ \/ db.l1_l2_head = head
          \/ head = Nil /\ db.l1_l2_head = Some(GENESIS)
          \/ head # Nil /\ db.l1_l2_head = Some(head[1] + 1)

\* head 0, the log of block 1 stored: the L2 Update of block 1 moves the head
\* to 1
C26_Witness ==
  /\ driver = "handled"
  /\ last.ev.kind = "L2Update"
  /\ last.ev.block.block_number = 1
  /\ HeadIs(last.pre, 0)
  /\ HeadIs(db, 1)

\* C27: L1 Reorg(T) and L2 Reorg(T) leave the composite head unchanged when
\* it is absent or below T; L2 Reorg(T) deletes exactly the L2 block rows with
\* number >= T and leaves every L1 log as it was; L1 Reorg(T) leaves every L2
\* block row as it was.
C27_ReorgFrame ==
  (Done /\ last.ev.kind \in {"L1Reorg", "L2Reorg"}) =>
    LET T == last.ev.reorg_tail
        head == last.pre.l1_l2_head
    IN /\ driver = "handled"
       /\ (head = Nil \/ head[1] < T) => db.l1_l2_head = head
       /\ last.ev.kind = "L2Reorg" =>
            /\ db.starknet_blocks = {b \in last.pre.starknet_blocks : b.number < T}
            /\ db.l1_state = last.pre.l1_state
       /\ last.ev.kind = "L1Reorg" =>
            db.starknet_blocks = last.pre.starknet_blocks

\* head 0, blocks 0 and 1 and a log stored: L2 Reorg(1) deletes block 1 alone
\* and keeps the head
C27_Witness ==
  /\ driver = "handled"
  /\ last.ev.kind = "L2Reorg"
  /\ last.ev.reorg_tail = 1
  /\ HeadIs(last.pre, 0)
  /\ StarknetBlocksTable_get(last.pre.starknet_blocks, 1) # Nil
  /\ HeadIs(db, 0)
  /\ db.starknet_blocks = {b \in last.pre.starknet_blocks : b.number = 0}
  /\ db.l1_state # {}

\* ------------------------------------------------ a crash inside a handler

\* The states of the open transaction as the handler of the event runs: the
\* store as it was, after each table write, and after the head write.
TransactionStates(d, ev) ==
  IF ev.kind = "L1Update"
    THEN {[d EXCEPT !.l1_state =
             InsertLoop([ok |-> TRUE, t |-> d.l1_state],
                        SubSeq(ev.updates, 1, i), 1).t] : i \in 0..Len(ev.updates)}
           \cup {l1_update(d, ev.updates).db}
  ELSE IF ev.kind = "L1Reorg"
    THEN {d, [d EXCEPT !.l1_state = L1StateTable_reorg(@, ev.reorg_tail)],
          l1_reorg(d, ev.reorg_tail).db}
  ELSE IF ev.kind = "L2Update"
    THEN LET updated == update_starknet_state(d, ev.diff).db
             row == [number |-> ev.block.block_number,
                     hash |-> ev.block.block_hash,
                     root |-> ev.block.state_root]
         IN {d, updated,
             [updated EXCEPT !.starknet_blocks =
                StarknetBlocksTable_insert(@, row).t],
             l2_update(d, ev.block, ev.diff).db}
  ELSE {d, [d EXCEPT !.starknet_blocks = StarknetBlocksTable_reorg(@, ev.reorg_tail)],
        l2_reorg(d, ev.reorg_tail).db}

\* Mutant: what the open transaction wrote stays in the store.
Rollback_KeepsWrites(d, written) == written

\* A transaction that ends without commit is rolled back.
Rollback(d, written) == d

\* The process ends while a handler's transaction is open.
Crash(written) ==
  /\ driver = "handling"
  /\ cur.kind \in {"L1Update", "L1Reorg", "L2Update", "L2Reorg"}
  /\ db' = Rollback(db, written)
  /\ driver' = "crashed"
  /\ cur' = NoEvent
  /\ last' = [ev |-> cur, pre |-> db, ok |-> FALSE, err |-> "crash"]
  /\ UNCHANGED <<received, tasks, status, starting_block, p2p_vars>>

\* The process ends after the commit.
CrashAfterCommit ==
  /\ driver = "handled"
  /\ driver' = "crashed"
  /\ UNCHANGED <<db, cur, last, received, tasks, status, starting_block, p2p_vars>>

NextCrash ==
  \/ NextStore
  \/ /\ driver = "handling"
     /\ \E written \in TransactionStates(db, cur) : Crash(written)
  \/ CrashAfterCommit

SpecCrash == InitStore /\ [][NextCrash]_vars

\* C28: for L1 Update, L1 Reorg, L2 Update and L2 Reorg the table writes and
\* the head write of the handler are in the store together or not at all:
\* after the handler, an error or a crash at any point the store is the whole
\* store before the event or the whole store after it.
C28_AllOrNothing ==
  (driver \in {"handled", "failed", "crashed"}
     /\ last.ev.kind \in {"L1Update", "L1Reorg", "L2Update", "L2Reorg"}) =>
    LET post == StoreAfter(last.pre, last.ev)
    IN /\ db = last.pre \/ db = post
       /\ last.ok => db = post
       /\ ~last.ok => db = last.pre

\* the process ended inside L1 Reorg(1) after the logs were deleted and
\* before the head was written: head 1 and its log are still there
C28_Witness ==
  /\ driver = "crashed"
  /\ ~last.ok
  /\ last.ev.kind = "L1Reorg"
  /\ last.ev.reorg_tail = 1
  /\ HeadIs(db, 1)
  /\ L1StateTable_get(db.l1_state, 1) # Nil

\* ------------------------------- a producer that closes its channel early

\* Events whose handlers commit on every store.
FaultL1 == {[kind |-> "L1Reorg", reorg_tail |-> t] : t \in {0, 1}}
FaultL2 == {[kind |-> "L2Reorg", reorg_tail |-> t] : t \in {0, 1}}

\* The L1 producer drops its sender and goes on running.
L1Close ==
  /\ driver # "failed"
  /\ l1_task = "running"
  /\ restarts < MaxRestarts
  /\ l1_task' = "closed"
  /\ UNCHANGED <<db, driver, cur, last, received,
                 rx_l1, rx_l2, l2_task, l1_head, l2_head, restarts,
                 l1_sent, l2_sent, l1_recvd, l2_recvd, status, starting_block, p2p_vars>>

\* The L1 producer task ends after it has dropped its sender.
L1Terminate(how) ==
  /\ l1_task = "closed"
  /\ l1_task' = how
  /\ UNCHANGED <<db, driver, cur, last, received,
                 rx_l1, rx_l2, l2_task, l1_head, l2_head, restarts,
                 l1_sent, l2_sent, l1_recvd, l2_recvd, status, starting_block, p2p_vars>>

\* select!: rx_l1.recv() yields None and the arm awaits l1_handle while the
\* task is running.
SyncL1Await ==
  /\ driver = "select"
  /\ rx_l1 = <<>>
  /\ l1_task = "closed"
  /\ driver' = "joining"
  /\ UNCHANGED <<db, cur, last, received, tasks, status, starting_block, p2p_vars>>

\* l1_handle.await completes: the task has ended; the L1 head is read and the
\* producer is spawned on a new channel.
SyncL1Joined ==
  /\ driver = "joining"
  /\ l1_task \in {"ok", "err"}
  /\ driver' = "handled"
  /\ last' = Closed("L1Joined", l1_task, TRUE, "none")
  /\ l1_head' = L1StateTable_latest(db.l1_state)
  /\ rx_l1' = <<>>
  /\ l1_task' = "running"
  /\ restarts' = restarts + 1
  /\ UNCHANGED <<db, cur, received, rx_l2, l2_task, l2_head,
                 l1_sent, l2_sent, l1_recvd, l2_recvd, status, starting_block, p2p_vars>>

\* the steps of sync
DriverStep ==
  \/ SyncRecvL1
  \/ SyncRecvL2
  \/ SyncL1Closed
  \/ SyncL2Closed
  \/ SyncL1Await
  \/ SyncL1Joined
  \/ SyncL1Reorg
  \/ SyncL2Reorg
  \/ SyncLoop

NextFault ==
  \/ \E ev \in FaultL1 : L1Send(ev)
  \/ \E ev \in FaultL2 : L2Send(ev)
  \/ \E how \in {"ok", "err"} : L1Exit(how)
  \/ \E how \in {"ok", "err"} : L2Exit(how)
  \/ L1Close
  \/ \E how \in {"ok", "err"} : L1Terminate(how)
  \/ DriverStep

\* sync is scheduled whenever it can take a step, and select! chooses among
\* its ready branches at random, so a branch that is ready again and again is
\* taken. Nothing is assumed of the producers.
SpecFault ==
  /\ Init
  /\ [][NextFault]_vars
  /\ WF_vars(DriverStep)
  /\ SF_vars(SyncRecvL1)
  /\ SF_vars(SyncRecvL2)

\* C29: every event the L2 producer has sent is eventually received by sync,
\* whatever the L1 producer does, and likewise every event of the L1 producer
\* whatever the L2 producer does (the events here are ones no store makes
\* fail).
C29_OtherSideGoesOn ==
  \A k \in 1..MaxSent :
    /\ (l2_sent >= k) ~> (l2_recvd >= k)
    /\ (l1_sent >= k) ~> (l1_recvd >= k)

\* What C30 says of one step of the header stream; hs.start is the current
\* position and hs.stop the stream's stop (lines 109-112).
C30_Step ==
  /\ hs'.stop = hs.stop
  /\ hs'.direction = hs.direction
  /\ (hs.pc = "next_peer" /\ hs' # hs /\ hs'.pc \in {"draining", "next_peer"}) =>
       /\ hs'.request.peer = Head(hs.peers)
       /\ hs'.request.start = hs.start
       /\ hs'.request.step = 1
       /\ hs'.request.limit = (IF hs.stop >= hs.start THEN hs.stop - hs.start
                                                      ELSE hs.start - hs.stop)
       /\ hs'.peers = Tail(hs.peers)
       /\ hs'.start = hs.start
  /\ hs'.yielded # hs.yielded =>
       /\ hs.pc = "draining"
       /\ hs'.pc = "draining"
       /\ hs'.request = hs.request
       /\ hs'.yielded = hs.yielded + 1
       /\ hs'.start = (IF hs.direction = "Forward" THEN hs.start + 1
                       ELSE IF hs.start > GENESIS THEN hs.start - 1 ELSE GENESIS)
  /\ hs'.yielded = hs.yielded => hs'.start = hs.start
  /\ (hs.pc = "draining" /\ hs'.pc # "draining") =>
       (hs'.pc = "next_peer" /\ hs'.yielded = hs.yielded /\ hs'.peers = hs.peers)

\* C30: every request of the header stream carries the current position as
\* start, step 1 and limit = |stop - current position| computed for that
\* request; each yielded header moves the position by exactly one in the
\* stream's direction, a backward stream staying at GENESIS once it is there;
\* the peer is drained until Fin, a malformed header or the end of its
\* response, and the next request goes to the next peer from the position
\* reached.
C30_HeaderRequests == [][hs.pc # "idle" => C30_Step]_vars

\* a backward stream from 2 to 0: the first peer has sent one header, and the
\* second peer is asked from position 1 with limit 1
C30_Witness ==
  /\ hs.pc = "draining"
  /\ hs.direction = "Backward"
  /\ hs.stop = 0
  /\ hs.yielded = 1
  /\ Len(hs.requested) >= 2
  /\ hs.request.start = 1
  /\ hs.request.limit = 1
  /\ hs.start = 1

\* What C31 says of one step of a stream, s before and t after it: s.via is
\* "none" until the first peer list was acquired, so a stream at "acquire"
\* with another via has exhausted a list.
C31_Step(s, t, capability) ==
  /\ (s.pc = "acquire" /\ s.via # "none" /\ t # s) => t.pc = "discover"
  /\ (s.pc = "update" /\ t # s) =>
       /\ t.peers \in Shuffles(s.found)
       /\ peers_with_capability'.set[capability] = Some(s.found)

\* C31: whenever a stream has exhausted its peer list, the next acquisition
\* of peers refreshes the cached set through a discovery call and takes the
\* refreshed set in a shuffled order.
C31_RefreshOnExhaustion ==
  [][/\ C31_Step(hs, hs', Headers_NAME)
     /\ C31_Step(ts, ts', Transactions_NAME)]_vars

\* ------------------------------------ concurrent calls on the peer cache

\* The tasks call get_update_peers_with_sync_capability at most MaxCalls
\* times between them.
MaxCalls == 3

RECURSIVE CallsOf(_)
\* the calls the tasks 1..k have made
CallsOf(k) == IF k = 0 THEN 0 ELSE calls[k].n + CallsOf(k - 1)

\* RwLock::read and RwLock::write: the task joins the queue of the lock, and
\* the queue is served in the order of arrival.
RwLock_request(l, t) == [l EXCEPT !.queue = Append(@, t)]

\* the read lock is granted to the first of the queue when nobody writes
RwLock_can_read(l, t) ==
  l.queue # <<>> /\ Head(l.queue) = t /\ l.writer = Nil

\* the write lock is granted to the first of the queue when nobody holds the
\* lock
RwLock_can_write(l, t) ==
  l.queue # <<>> /\ Head(l.queue) = t /\ l.writer = Nil /\ l.readers = {}

RwLock_read(l, t) == [l EXCEPT !.queue = Tail(@), !.readers = @ \cup {t}]

RwLock_write(l, t) == [l EXCEPT !.queue = Tail(@), !.writer = Some(t)]

\* a read guard goes out of scope
RwLockReadGuard_drop(l, t) == [l EXCEPT !.readers = @ \ {t}]

\* a write guard goes out of scope
RwLockWriteGuard_drop(l, t) == [l EXCEPT !.writer = Nil]

\* Mutant: the read guard is kept over the discovery.
drop_r_Kept(l, t) == l

\* line 82: drop(r)
drop_r(l, t) == RwLockReadGuard_drop(l, t)

\* Time passes for the cache's clock and for the stored sets; a stored set's
\* age is not counted further once it is past the timeout.
CacheTick ==
  /\ peers_with_capability.elapsed <= timeout
  /\ peers_with_capability' = [peers_with_capability EXCEPT !.elapsed = @ + TickSecs]
  /\ stored' = [capability \in Capabilities |->
                  IF stored[capability] = Nil \/ stored[capability][1] > timeout
                    THEN stored[capability]
                    ELSE Some(stored[capability][1] + TickSecs)]
  /\ UNCHANGED <<hs, ts, debug_assertions, calls, lock, sync_vars>>

\* A task's stream calls get_update_peers_with_sync_capability(capability):
\* line 77, self.peers_with_capability.read() is awaited.
CallStart(t, capability) ==
  /\ calls[t].pc \in {"idle", "done"}
  /\ CallsOf(MaxTasks) < MaxCalls
  /\ calls' = [calls EXCEPT ![t] =
                 [pc |-> "read", capability |-> capability, found |-> {},
                  peers |-> {}, via |-> "none", n |-> calls[t].n + 1]]
  /\ lock' = RwLock_request(lock, t)
  /\ UNCHANGED <<peers_with_capability, hs, ts, debug_assertions, stored, sync_vars>>

\* line 77: the read lock is granted
CallRead(t) ==
  /\ calls[t].pc = "read"
  /\ RwLock_can_read(lock, t)
  /\ lock' = RwLock_read(lock, t)
  /\ calls' = [calls EXCEPT ![t].pc = "reading"]
  /\ UNCHANGED <<peers_with_capability, hs, ts, debug_assertions, stored, sync_vars>>

\* lines 78-82: r.get(capability); the set is copied under the read lock, or
\* the read lock is dropped
CallGet(t) ==
  /\ calls[t].pc = "reading"
  /\ LET cached == PeersWithCapability_get(peers_with_capability, calls[t].capability)
     IN IF cached # Nil
          THEN /\ calls' = [calls EXCEPT ![t].pc = "hit", ![t].peers = cached[1],
                                         ![t].via = "cache"]
               /\ UNCHANGED lock
          ELSE /\ calls' = [calls EXCEPT ![t].pc = "discover"]
               /\ lock' = drop_r(lock, t)
  /\ UNCHANGED <<peers_with_capability, hs, ts, debug_assertions, stored, sync_vars>>

\* lines 99-101: the copy is shuffled and returned (its order is not kept
\* here), and r goes out of scope
CallReturn(t) ==
  /\ calls[t].pc = "hit"
  /\ calls' = [calls EXCEPT ![t].pc = "done"]
  /\ lock' = RwLockReadGuard_drop(lock, t)
  /\ UNCHANGED <<peers_with_capability, hs, ts, debug_assertions, stored, sync_vars>>

\* lines 84-95: the discovery has answered, and
\* self.peers_with_capability.write() is awaited
CallDiscover(t, result) ==
  /\ calls[t].pc = "discover"
  /\ LET c == Discover(calls[t], result)
     IN IF c.pc = "panicked"
          THEN /\ calls' = [calls EXCEPT ![t] = c]
               /\ UNCHANGED lock
          ELSE /\ calls' = [calls EXCEPT ![t] = [c EXCEPT !.pc = "write"]]
               /\ lock' = RwLock_request(lock, t)
  /\ UNCHANGED <<peers_with_capability, hs, ts, debug_assertions, stored, sync_vars>>

\* line 95: the write lock is granted
CallWrite(t) ==
  /\ calls[t].pc = "write"
  /\ RwLock_can_write(lock, t)
  /\ lock' = RwLock_write(lock, t)
  /\ calls' = [calls EXCEPT ![t].pc = "writing"]
  /\ UNCHANGED <<peers_with_capability, hs, ts, debug_assertions, stored, sync_vars>>

\* lines 96-101: w.update(capability, peers), w goes out of scope and the
\* peers found are returned
CallUpdate(t) ==
  /\ calls[t].pc = "writing"
  /\ peers_with_capability' =
       PeersWithCapability_update(peers_with_capability, calls[t].capability,
                                  calls[t].found)
  /\ stored' = [stored EXCEPT ![calls[t].capability] = Some(0)]
  /\ lock' = RwLockWriteGuard_drop(lock, t)
  /\ calls' = [calls EXCEPT ![t].pc = "done", ![t].peers = calls[t].found,
                            ![t].via = "discovery"]
  /\ UNCHANGED <<hs, ts, debug_assertions, sync_vars>>

\* What get_capability_providers answers here: an error, or this node and one
\* other peer, each there or not.
CallDiscoveryResults ==
  {result \in DiscoveryResults : result.providers \subseteq {Self, "p1"}}

\* the steps of a call that has begun
CallStep(t) ==
  \/ CallRead(t)
  \/ CallGet(t)
  \/ CallReturn(t)
  \/ \E result \in CallDiscoveryResults : CallDiscover(t, result)
  \/ CallWrite(t)
  \/ CallUpdate(t)

NextCache ==
  \/ CacheTick
  \/ \E t \in Tasks, capability \in Capabilities : CallStart(t, capability)
  \/ \E t \in Tasks : CallStep(t)

\* Every task is polled again and again and every discovery is answered;
\* nothing is assumed of when a stream calls.
SpecCache ==
  /\ InitP2P
  /\ [][NextCache]_vars
  /\ \A t \in Tasks : WF_vars(CallStep(t))

\* C32: a set served from the cache for a capability was stored by an update
\* for that capability not more than the timeout ago, whatever other
\* capabilities were updated since.
C32_NeverOlderThanTtl ==
  [][\A t \in Tasks :
       (calls[t].pc = "reading" /\ calls'[t].pc = "hit") =>
         /\ stored[calls[t].capability] # Nil
         /\ stored[calls[t].capability][1] <= timeout]_vars

\* a call that has begun and has not returned
InCall(t) == calls[t].pc \in {"read", "reading", "hit", "discover", "write", "writing"}

\* no task waits for the write lock, or holds it, while it holds the read
\* lock; the write lock is held alone
C33_NoUpgrade ==
  /\ \A t \in Tasks :
       calls[t].pc \in {"write", "writing"} => t \notin lock.readers
  /\ lock.writer # Nil => lock.readers = {}

\* the cache changes by the update of a task that holds the write lock, and
\* holds that task's result for its capability afterwards
C33_LastWriter ==
  /\ \A t \in Tasks :
       (calls[t].pc = "writing" /\ calls'[t].pc = "done") =>
         /\ lock.writer = Some(t)
         /\ peers_with_capability'.set[calls[t].capability] = Some(calls[t].found)
         /\ \A other \in Capabilities \ {calls[t].capability} :
              peers_with_capability'.set[other] = peers_with_capability.set[other]
  /\ peers_with_capability'.set # peers_with_capability.set =>
       \E t \in Tasks : calls[t].pc = "writing" /\ calls'[t].pc = "done"

\* C33: with several tasks on one client's cache, no task waits for the write
\* lock while it holds the read lock, and every call of
\* get_update_peers_with_sync_capability returns (or panics on the debug
\* assertion): peer acquisition does not deadlock. Tasks that find the cache
\* missing at once each run the discovery, and after each update the cache
\* holds the result of the task that wrote last.
C33_NoDeadlock ==
  /\ []C33_NoUpgrade
  /\ [][C33_LastWriter]_vars
  /\ \A t \in Tasks : InCall(t) ~> (calls[t].pc \in {"done", "panicked"})

\* both tasks found headers missing at once, both discovered, and the cache
\* holds what one of them wrote over the other's
C33_Witness ==
  /\ \A t \in Tasks :
       /\ calls[t].pc = "done"
       /\ calls[t].n = 1
       /\ calls[t].via = "discovery"
       /\ calls[t].capability = Headers_NAME
  /\ calls[1].peers # calls[2].peers
  /\ peers_with_capability.elapsed = 0
  /\ peers_with_capability.set[Headers_NAME] = Some(calls[2].peers)

\* the header stream was called with start below stop, so that the range it
\* was asked for is not empty and its initial |stop - start| is positive
HeaderRangeAsked ==
  /\ hs.pc # "idle"
  /\ hs.args.start < hs.args.stop

\* C34: the header stream stays inside the requested range whatever the peers
\* send: in a forward stream the current position never exceeds stop, in a
\* backward stream it never goes below stop, and the number of headers yielded
\* never exceeds the initial |stop - start|.
C34_InRange ==
  HeaderRangeAsked =>
    /\ hs.direction = "Forward" => hs.start <= hs.stop
    /\ hs.direction = "Backward" => hs.start >= hs.stop
    /\ hs.yielded <= AbsDiff(hs.args.start, hs.args.stop)
====
